---------------------------- MODULE Spec2Model ----------------------------
(***************************************************************************)
(* A model of four components of R2R:                                      *)
(*   - AsyncPipe   (py/core/base/pipes/base_pipe.py): run, its log queue   *)
(*                 and its log worker task;                                *)
(*   - AsyncState  (py/core/base/pipes/base_pipe.py): the locked two-level *)
(*                 dictionary;                                             *)
(*   - PostgresDocumentHandler (py/core/providers/database/document.py):   *)
(*                 upsert_documents_overview and its retry loop, the       *)
(*                 delete, the workflow status calls and the overview.     *)
(*   - KGSearchSearchPipe (py/core/pipes/retrieval/kg_search_pipe.py):     *)
(*                 filter_responses and local_search.                      *)
(* Each component has its own specification (SpecPipe, SpecState, SpecDoc, *)
(* SpecRetry, SpecConflict, SpecStore, SpecKg, SpecSearch); a              *)
(* specification leaves the other components' variables unchanged.         *)
(***************************************************************************)
EXTENDS Integers, Sequences, FiniteSets, TLC

(***************************************************************************)
(* Bounds of the model.                                                    *)
(***************************************************************************)
\* results the core logic of one call produces at most
MaxResults == 1
\* enqueue_log calls made on the pipe instance at most, all calls together
MaxEvents == 3
\* PipeConfig.max_log_queue_size of the instance (100 by default)
max_log_queue_size == 2

\* operations one client of the AsyncState performs at most
MaxOps == 2
\* largest ingestion_attempt_number of an incoming document or an initial row
MaxAttempt == 1
\* max_retries of upsert_documents_overview
max_retries == 20
\* largest offset and largest limit of a get_documents_overview call
MaxOffset == 2
MaxLimit == 1
\* responses one call of filter_responses is given at most
MaxResponses == 3

\* the elements of a sequence
Range(q) == {q[i] : i \in 1..Len(q)}

\* the run() calls made on the one pipe instance; NoTask is the attribute's None
Calls == {1, 2}
NoTask == 0

VARIABLES
    \* ---- AsyncPipe ----
    callPc,           \* position of each run() call (its wrapped_run generator)
    callOutcome,      \* how the call left the try block
    yielded,          \* results forwarded to the consumer by each call
    enqueued,         \* enqueue_log calls made by the core logic of each call
    awaited,          \* the task a call awaits in its finally block
    taskState,        \* state of the log worker task each call created
    taskItem,         \* the event a worker took from the queue and is logging
    log_worker_task,  \* self.log_worker_task: the call whose task it refers to
    log_queue,        \* self.log_queue
    logged,           \* events handed to logging_provider.log, in order
    overlapped,       \* history: the call ran while another call was in progress
    handed,           \* history: the events passed to logging_provider.log, in
                      \* the order of the calls
    \* ---- AsyncState ----
    data,             \* self.data: outer key -> bucket (inner key -> value)
    lock,             \* self.lock: the client that holds it, or NoClient
    clientPc,         \* position of each client inside its current operation
    clientOp,         \* the operation a client is executing
    pending,          \* update: the key/value pairs still to merge
    opsDone,          \* operations each client has completed
    result,           \* outcome of the last operation each client completed
    serData,          \* history: the state after the completed operations, each
                      \* applied as one atomic step in the order they released
    serResult,        \* history: what the last operation of each client returns
                      \* when applied atomically to serData
    \* ---- PostgresDocumentHandler ----
    table,            \* the committed rows of the document_info table
    initialTable,     \* history: the table before the first upsert
    rowLock,          \* the writer whose transaction holds the lock of a row
    batch,            \* documents_overview of the call of each writer
    idx,              \* position of the for loop in the batch
    wPc,              \* position of each call of upsert_documents_overview
    cur,              \* db_entry of the document the loop is at
    existing_doc,     \* the row the SELECT of the transaction returned
    uncommitted,      \* the write of the open transaction
    retries,          \* the retry counter
    wait_time,        \* the last backoff, in milliseconds
    txnRuns,          \* history: transactions begun for the current document
    \* ---- PostgresDocumentHandler: delete, status and overview calls ----
    storePc,          \* position of the caller: idle, called or replied
    call,             \* the method called and its arguments
    reply,            \* what the call returned or raised
    before,           \* history: the table when the call was made
    queries,          \* history: statements the call has sent to the store
    \* ---- KGSearchSearchPipe.filter_responses ----
    map_responses,    \* the argument of the call
    kgPc,             \* position of the call: called or returned
    kgResult,         \* the text the call returned, or the exception
    \* ---- KGSearchSearchPipe.local_search ----
    messages,         \* input.message: the messages of the call, in order
    message_index,    \* position of `async for message in input.message`
    searchPc,         \* position of the generator
    search_results,   \* what is left of the results of the current query
    yielded_results,  \* history: the results the generator has yielded
    vector_queries    \* history: the queries sent to vector_query

pipeVars == <<callPc, callOutcome, yielded, enqueued, awaited, taskState,
              taskItem, log_worker_task, log_queue, logged, overlapped,
              handed>>

stateVars == <<data, lock, clientPc, clientOp, pending, opsDone, result,
               serData, serResult>>

docVars == <<table, initialTable, rowLock, batch, idx, wPc, cur, existing_doc,
             uncommitted, retries, wait_time, txnRuns>>

storeVars == <<storePc, call, reply, before, queries>>

searchVars == <<messages, message_index, searchPc, search_results,
                yielded_results, vector_queries>>

kgVars == <<map_responses, kgPc, kgResult, searchVars>>

vars == <<pipeVars, stateVars, docVars, storeVars, kgVars>>

-----------------------------------------------------------------------------
(***************************************************************************)
(* AsyncPipe                                                               *)
(***************************************************************************)

\* asyncio.Task.done(): the task returned, raised or was cancelled
TaskDone(t) == taskState[t] \in {"cancelled", "failed"}

\* a call between the creation of its worker and its return
InProgress(c) == callPc[c] \in {"running", "yielded", "awaiting"}

InitPipe ==
    /\ callPc = [c \in Calls |-> "idle"]
    /\ callOutcome = [c \in Calls |-> "none"]
    /\ yielded = [c \in Calls |-> 0]
    /\ enqueued = [c \in Calls |-> 0]
    /\ awaited = [c \in Calls |-> NoTask]
    /\ taskState = [c \in Calls |-> "none"]
    /\ taskItem = [c \in Calls |-> <<>>]
    /\ log_worker_task = NoTask
    /\ log_queue = <<>>
    /\ logged = <<>>
    /\ overlapped = [c \in Calls |-> FALSE]
    /\ handed = <<>>

\* wrapped_run up to the first step of _run_logic: manage_run is entered and
\* the worker task is created and stored in the instance attribute.
StartRun(c) ==
    /\ callPc[c] = "idle"
    /\ callPc' = [callPc EXCEPT ![c] = "running"]
    /\ taskState' = [taskState EXCEPT ![c] = "waiting"]
    /\ log_worker_task' = c
    /\ overlapped' = [d \in Calls |->
                        IF \E e \in Calls \ {c} : InProgress(e)
                        THEN (d = c \/ InProgress(d) \/ overlapped[d])
                        ELSE overlapped[d]]
    /\ UNCHANGED <<handed, callOutcome, yielded, enqueued, awaited, taskItem,
                   log_queue, logged>>

\* enqueue_log: the size test and the put on the unbounded asyncio.Queue run
\* without a suspension point in between.
EnqueueLogDropsAtEq(q, ev) ==
    IF Len(q) <= max_log_queue_size THEN Append(q, ev) ELSE q

enqueue_log(q, ev) ==
    IF Len(q) < max_log_queue_size THEN Append(q, ev) ELSE q

\* the core logic of a running call logs an event
CoreEnqueue(c) ==
    /\ callPc[c] = "running"
    /\ enqueued[1] + enqueued[2] < MaxEvents
    /\ log_queue' = enqueue_log(log_queue, <<c, enqueued[c] + 1>>)
    /\ enqueued' = [enqueued EXCEPT ![c] = @ + 1]
    /\ UNCHANGED <<handed, callPc, callOutcome, yielded, awaited, taskState, taskItem,
                   log_worker_task, logged, overlapped>>

\* `yield result`: the generator is suspended and the consumer has control
CoreYield(c) ==
    /\ callPc[c] = "running"
    /\ yielded[c] < MaxResults
    /\ callPc' = [callPc EXCEPT ![c] = "yielded"]
    /\ yielded' = [yielded EXCEPT ![c] = @ + 1]
    /\ UNCHANGED <<handed, callOutcome, enqueued, awaited, taskState, taskItem,
                   log_worker_task, log_queue, logged, overlapped>>

\* the consumer asks for the next result
ConsumerNext(c) ==
    /\ callPc[c] = "yielded"
    /\ callPc' = [callPc EXCEPT ![c] = "running"]
    /\ UNCHANGED <<handed, callOutcome, yielded, enqueued, awaited, taskState, taskItem,
                   log_worker_task, log_queue, logged, overlapped>>

\* The finally block of wrapped_run up to its only suspension point: the queue
\* is emptied (get on a non-empty queue does not suspend), then the task the
\* instance attribute refers to is cancelled and awaited unless it is done.
FinallyNoAwait(c, how) ==
    /\ callOutcome' = [callOutcome EXCEPT ![c] = how]
    /\ log_queue' = <<>>
    /\ IF log_worker_task # NoTask /\ ~TaskDone(log_worker_task)
       THEN /\ taskState' = [taskState EXCEPT ![log_worker_task] = "cancelling"]
            /\ awaited' = [awaited EXCEPT ![c] = log_worker_task]
            /\ callPc' = [callPc EXCEPT ![c] = "ended"]
       ELSE /\ callPc' = [callPc EXCEPT ![c] = "ended"]
            /\ UNCHANGED <<handed, taskState, awaited>>
    /\ UNCHANGED <<handed, yielded, enqueued, taskItem, log_worker_task, logged,
                   overlapped>>

\* a finally block without the `not self.log_worker_task.done()` test: the
\* task is cancelled, which does nothing to a task that is done, and awaited
FinallyAwaitsDone(c, how) ==
    /\ callOutcome' = [callOutcome EXCEPT ![c] = how]
    /\ log_queue' = <<>>
    /\ IF log_worker_task # NoTask
       THEN /\ taskState' = [taskState EXCEPT ![log_worker_task] =
                                IF TaskDone(log_worker_task) THEN @
                                ELSE "cancelling"]
            /\ awaited' = [awaited EXCEPT ![c] = log_worker_task]
            /\ callPc' = [callPc EXCEPT ![c] = "awaiting"]
       ELSE /\ callPc' = [callPc EXCEPT ![c] = "ended"]
            /\ UNCHANGED <<taskState, awaited>>
    /\ UNCHANGED <<handed, yielded, enqueued, taskItem, log_worker_task, logged,
                   overlapped>>

Finally(c, how) ==
    /\ callOutcome' = [callOutcome EXCEPT ![c] = how]
    /\ log_queue' = <<>>
    /\ IF log_worker_task # NoTask /\ ~TaskDone(log_worker_task)
       THEN /\ taskState' = [taskState EXCEPT ![log_worker_task] = "cancelling"]
            /\ awaited' = [awaited EXCEPT ![c] = log_worker_task]
            /\ callPc' = [callPc EXCEPT ![c] = "awaiting"]
       ELSE /\ callPc' = [callPc EXCEPT ![c] = "ended"]
            /\ UNCHANGED <<handed, taskState, awaited>>
    /\ UNCHANGED <<handed, yielded, enqueued, taskItem, log_worker_task, logged,
                   overlapped>>

\* _run_logic is exhausted
CoreExhausted(c) ==
    /\ callPc[c] = "running"
    /\ Finally(c, "exhausted")

\* _run_logic raises
CoreRaises(c) ==
    /\ callPc[c] = "running"
    /\ Finally(c, "raised")

\* the consumer closes the generator while it is suspended at the yield
ConsumerCloses(c) ==
    /\ callPc[c] = "yielded"
    /\ Finally(c, "closed")

\* `await self.log_worker_task` is over once the awaited task is done:
\* CancelledError is swallowed and manage_run exits; the exception of a task
\* that ended by another exception is raised again and leaves the call.
AwaitReturns(c) ==
    /\ callPc[c] = "awaiting"
    /\ TaskDone(awaited[c])
    /\ callPc' = [callPc EXCEPT ![c] = "ended"]
    /\ callOutcome' = [callOutcome EXCEPT ![c] =
                          IF taskState[awaited[c]] = "failed"
                          THEN "logging_error" ELSE @]
    /\ UNCHANGED <<handed, yielded, enqueued, awaited, taskState, taskItem,
                   log_worker_task, log_queue, logged, overlapped>>

\* a worker that takes the event put last
WorkerGetsNewest(t) ==
    /\ taskState[t] = "waiting"
    /\ log_queue # <<>>
    /\ taskItem' = [taskItem EXCEPT ![t] = log_queue[Len(log_queue)]]
    /\ handed' = Append(handed, log_queue[Len(log_queue)])
    /\ log_queue' = SubSeq(log_queue, 1, Len(log_queue) - 1)
    /\ taskState' = [taskState EXCEPT ![t] = "logging"]
    /\ UNCHANGED <<callPc, callOutcome, yielded, enqueued, awaited,
                   log_worker_task, logged, overlapped>>

\* log_worker: `await self.log_queue.get()` returns the event at the head of
\* the queue and the worker calls logging_provider.log with it, with no
\* suspension point in between
WorkerGet(t) ==
    /\ taskState[t] = "waiting"
    /\ log_queue # <<>>
    /\ taskItem' = [taskItem EXCEPT ![t] = Head(log_queue)]
    /\ handed' = Append(handed, Head(log_queue))
    /\ log_queue' = Tail(log_queue)
    /\ taskState' = [taskState EXCEPT ![t] = "logging"]
    /\ UNCHANGED <<callPc, callOutcome, yielded, enqueued, awaited,
                   log_worker_task, logged, overlapped>>

\* the logging provider appends the events of one run_id in the order of the
\* log calls: the call of worker t is not the one to append while a call made
\* before it for the same run_id is under way
AppendsInIssueOrder(t) ==
    \A u \in Calls \ {t} :
        (taskState[u] = "logging" /\ taskItem[u][1] = taskItem[t][1]) =>
            \E i, j \in 1..Len(handed) :
                i < j /\ handed[i] = taskItem[t] /\ handed[j] = taskItem[u]

\* log_worker: logging_provider.log returns, then task_done
WorkerLogged(t) ==
    /\ taskState[t] = "logging"
    /\ AppendsInIssueOrder(t)
    /\ logged' = Append(logged, taskItem[t])
    /\ taskItem' = [taskItem EXCEPT ![t] = <<>>]
    /\ taskState' = [taskState EXCEPT ![t] = "waiting"]
    /\ UNCHANGED <<handed, callPc, callOutcome, yielded, enqueued, awaited,
                   log_worker_task, log_queue, overlapped>>

\* log_worker: logging_provider.log raises; the exception ends the task
WorkerLogFails(t) ==
    /\ taskState[t] = "logging"
    /\ taskItem' = [taskItem EXCEPT ![t] = <<>>]
    /\ taskState' = [taskState EXCEPT ![t] = "failed"]
    /\ UNCHANGED <<handed, callPc, callOutcome, yielded, enqueued, awaited,
                   log_worker_task, log_queue, logged, overlapped>>

\* the cancelled worker is scheduled: CancelledError ends it
WorkerCancelled(t) ==
    /\ taskState[t] = "cancelling"
    /\ taskItem' = [taskItem EXCEPT ![t] = <<>>]
    /\ taskState' = [taskState EXCEPT ![t] = "cancelled"]
    /\ UNCHANGED <<handed, callPc, callOutcome, yielded, enqueued, awaited,
                   log_worker_task, log_queue, logged, overlapped>>

NextPipe ==
    /\ \E c \in Calls :
        \/ StartRun(c)
        \/ CoreEnqueue(c)
        \/ CoreYield(c)
        \/ ConsumerNext(c)
        \/ CoreExhausted(c)
        \/ CoreRaises(c)
        \/ ConsumerCloses(c)
        \/ AwaitReturns(c)
        \/ WorkerGet(c)
        \/ WorkerLogged(c)
        \/ WorkerLogFails(c)
        \/ WorkerCancelled(c)
    /\ UNCHANGED <<stateVars, docVars, storeVars, kgVars>>

-----------------------------------------------------------------------------
(***************************************************************************)
(* AsyncState                                                              *)
(*                                                                         *)
(* The body of every operation runs between the acquisition and the        *)
(* release of self.lock.  The model lets other clients be scheduled        *)
(* between any two statements of a body, which is more than the event loop *)
(* does (a body holds no await): what excludes them is the lock alone.     *)
(***************************************************************************)

Clients == {1, 2}
NoClient == 0

OuterKeys == {"o", "p"}
\* inner keys a caller passes; "" is the empty string, NoneKey is None
InnerKeys == {"", "a"}
NoneKey == "None"
\* values; None and 0 are the falsy ones
NoneValue == -1
Values == {0, 1, 2}
\* marks an inner key that is not in a bucket
Missing == -2

\* Python truth value of an inner key and of a value
TruthyKey(k) == k # NoneKey /\ k # ""
TruthyValue(v) == v # NoneValue /\ v # 0

EmptyBucket == [k \in InnerKeys |-> Missing]
\* an outer key that is not in self.data
Absent == [present |-> FALSE, items |-> EmptyBucket]

\* the `values` arguments of update: dictionaries as sequences of pairs in
\* iteration order, and one argument that is not a dictionary
NotADict == << <<NoneKey, NoneValue>> >>
UpdateValues ==
    { <<>>,
      << <<"a", 1>> >>,
      << <<"", 2>>, <<"a", 2>> >>,
      NotADict }

Operations ==
    [kind : {"update"}, outer : OuterKeys, inner : {NoneKey},
     values : UpdateValues, default : {NoneValue}]
    \cup
    [kind : {"get"}, outer : OuterKeys, inner : InnerKeys,
     values : {<<>>}, default : {NoneValue, 0, 1}]
    \cup
    [kind : {"delete"}, outer : OuterKeys, inner : InnerKeys \cup {NoneKey},
     values : {<<>>}, default : {NoneValue}]

NoOp == [kind |-> "none", outer |-> "o", inner |-> NoneKey,
         values |-> <<>>, default |-> NoneValue]

\* outcomes of an operation: <<kind, value>>
Returned(v) == <<"value", v>>
ReturnedNone == <<"value", NoneValue>>
ReturnedEmptyMap == <<"emptymap", NoneValue>>
RaisedValueError == <<"ValueError", NoneValue>>
RaisedKeyError == <<"KeyError", NoneValue>>
NoResult == <<"none", NoneValue>>

InitState ==
    /\ data = [o \in OuterKeys |-> Absent]
    /\ lock = NoClient
    /\ clientPc = [p \in Clients |-> "idle"]
    /\ clientOp = [p \in Clients |-> NoOp]
    /\ pending = [p \in Clients |-> <<>>]
    /\ opsDone = [p \in Clients |-> 0]
    /\ result = [p \in Clients |-> NoResult]
    /\ serData = [o \in OuterKeys |-> Absent]
    /\ serResult = [p \in Clients |-> NoResult]

\* ---- the operations as functions of the whole dictionary ----

RECURSIVE Merge(_, _)
\* the for loop of update over the pairs of `values`
Merge(items, pairs) ==
    IF pairs = <<>> THEN items
    ELSE Merge([items EXCEPT ![Head(pairs)[1]] = Head(pairs)[2]], Tail(pairs))

\* update(outer_key, values)
UpdateData(d, op) ==
    IF op.values = NotADict THEN d
    ELSE [d EXCEPT ![op.outer] =
            [present |-> TRUE, items |-> Merge(d[op.outer].items, op.values)]]

UpdateResult(d, op) ==
    IF op.values = NotADict THEN RaisedValueError ELSE ReturnedNone

\* get(outer_key, inner_key, default)
GetResult(d, op) ==
    IF ~d[op.outer].present THEN RaisedValueError
    ELSE IF d[op.outer].items[op.inner] = Missing
         THEN (IF TruthyValue(op.default) THEN Returned(op.default)
               ELSE ReturnedEmptyMap)
         ELSE Returned(d[op.outer].items[op.inner])

\* `inner_key not in self.data[outer_key]`
InnerMissing(bucket, k) == k = NoneKey \/ bucket.items[k] = Missing

\* delete(outer_key, inner_key)
DeleteData(d, op) ==
    IF d[op.outer].present /\ ~TruthyKey(op.inner)
    THEN [d EXCEPT ![op.outer] = Absent]
    ELSE IF ~d[op.outer].present THEN d
         ELSE IF InnerMissing(d[op.outer], op.inner) THEN d
              ELSE [d EXCEPT ![op.outer].items[op.inner] = Missing]

DeleteResult(d, op) ==
    IF d[op.outer].present /\ ~TruthyKey(op.inner) THEN ReturnedNone
    ELSE IF ~d[op.outer].present THEN RaisedKeyError
         ELSE IF InnerMissing(d[op.outer], op.inner) THEN RaisedValueError
              ELSE ReturnedNone

AtomicData(d, op) ==
    CASE op.kind = "update" -> UpdateData(d, op)
      [] op.kind = "get" -> d
      [] op.kind = "delete" -> DeleteData(d, op)

AtomicResult(d, op) ==
    CASE op.kind = "update" -> UpdateResult(d, op)
      [] op.kind = "get" -> GetResult(d, op)
      [] op.kind = "delete" -> DeleteResult(d, op)

\* ---- the operations statement by statement ----

\* an `async with` that lets every caller in
LockIgnored(p) == TRUE

\* `async with self.lock` lets a caller in when the lock is free
LockFree(p) == lock = NoClient

\* a client calls an operation and enters its `async with self.lock` block
Acquire(p, op) ==
    /\ clientPc[p] = "idle"
    /\ opsDone[p] < MaxOps
    /\ LockFree(p)
    /\ lock' = p
    /\ clientOp' = [clientOp EXCEPT ![p] = op]
    /\ clientPc' = [clientPc EXCEPT ![p] = "locked"]
    /\ result' = [result EXCEPT ![p] = NoResult]
    /\ serResult' = [serResult EXCEPT ![p] = NoResult]
    /\ UNCHANGED <<data, pending, opsDone, serData>>

\* update: the isinstance test and the creation of the bucket
UpdateBegin(p) ==
    /\ clientPc[p] = "locked"
    /\ clientOp[p].kind = "update"
    /\ IF clientOp[p].values = NotADict
       THEN /\ result' = [result EXCEPT ![p] = RaisedValueError]
            /\ clientPc' = [clientPc EXCEPT ![p] = "leaving"]
            /\ UNCHANGED <<data, pending>>
       ELSE /\ data' = [data EXCEPT ![clientOp[p].outer].present = TRUE]
            /\ pending' = [pending EXCEPT ![p] = clientOp[p].values]
            /\ clientPc' = [clientPc EXCEPT ![p] = "merging"]
            /\ UNCHANGED result
    /\ UNCHANGED <<lock, clientOp, opsDone, serData, serResult>>

\* update: one iteration of the for loop, or its end
UpdateMerge(p) ==
    /\ clientPc[p] = "merging"
    /\ IF pending[p] = <<>>
       THEN /\ result' = [result EXCEPT ![p] = ReturnedNone]
            /\ clientPc' = [clientPc EXCEPT ![p] = "leaving"]
            /\ UNCHANGED <<data, pending>>
       ELSE /\ data' = [data EXCEPT ![clientOp[p].outer].items[Head(pending[p])[1]] =
                                        Head(pending[p])[2]]
            /\ pending' = [pending EXCEPT ![p] = Tail(@)]
            /\ UNCHANGED <<result, clientPc>>
    /\ UNCHANGED <<lock, clientOp, opsDone, serData, serResult>>

\* get: the body
GetBody(p) ==
    /\ clientPc[p] = "locked"
    /\ clientOp[p].kind = "get"
    /\ result' = [result EXCEPT ![p] = GetResult(data, clientOp[p])]
    /\ clientPc' = [clientPc EXCEPT ![p] = "leaving"]
    /\ UNCHANGED <<data, lock, clientOp, pending, opsDone, serData, serResult>>

\* delete: the body
DeleteBody(p) ==
    /\ clientPc[p] = "locked"
    /\ clientOp[p].kind = "delete"
    /\ data' = DeleteData(data, clientOp[p])
    /\ result' = [result EXCEPT ![p] = DeleteResult(data, clientOp[p])]
    /\ clientPc' = [clientPc EXCEPT ![p] = "leaving"]
    /\ UNCHANGED <<lock, clientOp, pending, opsDone, serData, serResult>>

\* the `async with` block is left (by return or by exception): the lock is
\* released and the operation is over
Release(p) ==
    /\ clientPc[p] = "leaving"
    /\ lock' = IF lock = p THEN NoClient ELSE lock
    /\ clientPc' = [clientPc EXCEPT ![p] = "idle"]
    /\ opsDone' = [opsDone EXCEPT ![p] = @ + 1]
    /\ serData' = AtomicData(serData, clientOp[p])
    /\ serResult' = [serResult EXCEPT ![p] = AtomicResult(serData, clientOp[p])]
    /\ UNCHANGED <<data, clientOp, pending, result>>

NextState ==
    /\ \E p \in Clients :
        \/ \E op \in Operations : Acquire(p, op)
        \/ UpdateBegin(p)
        \/ UpdateMerge(p)
        \/ GetBody(p)
        \/ DeleteBody(p)
        \/ Release(p)
    /\ UNCHANGED <<pipeVars, docVars, storeVars, kgVars>>

-----------------------------------------------------------------------------
(***************************************************************************)
(* PostgresDocumentHandler.upsert_documents_overview                       *)
(*                                                                         *)
(* The table is the set of its committed rows.  A transaction runs at      *)
(* READ COMMITTED: SELECT ... FOR UPDATE takes the lock of the row it      *)
(* finds and waits while another transaction holds it; an INSERT fails     *)
(* with UniqueViolationError when a committed row has the same primary     *)
(* key and waits while another transaction has inserted the key without    *)
(* having committed; the writes become visible at commit.                  *)
(***************************************************************************)

Writers == {1, 2}
NoWriter == 0
DocIds == {"d1", "d2"}
IngestionStatuses == {"pending", "success", "failed"}

RECURSIVE Pow2(_)
\* 2**n
Pow2(n) == IF n = 0 THEN 1 ELSE 2 * Pow2(n - 1)

\* document_info.convert_to_db_entry(): every column but the id, the ingestion
\* status and the attempt number carries the tag of the document it is from
DbEntry(id, tag, status, attempt) ==
    [document_id |-> id, collection_ids |-> tag, user_id |-> tag,
     document_type |-> tag, metadata |-> tag, title |-> tag, version |-> tag,
     size_in_bytes |-> tag, ingestion_status |-> status,
     kg_extraction_status |-> tag, created_at |-> tag, updated_at |-> tag,
     ingestion_attempt_number |-> attempt]

\* the tag of the document at position i of the batch of writer w
Tag(w, i) == 10 * w + i
\* the tag of a row that is in the table from the start
InitialTag == 0

NoDocument == DbEntry("d1", InitialTag, "pending", 0)
NoExisting == [found |-> FALSE, ingestion_attempt_number |-> 0,
               ingestion_status |-> "pending"]
NoWrite == [kind |-> "none", row |-> NoDocument]

RowsOf(tbl, id) == {r \in tbl : r.document_id = id}

\* lines 92-99: the attempt number an update stores
StoresIncomingNumber(db_version, db_status, new_version, new_status) ==
    new_version

IncrementsOnEqualNumber(db_version, db_status, new_version, new_status) ==
    IF (db_status # "success" /\ new_status = "success")
       \/ new_version >= db_version
    THEN db_version + 1
    ELSE db_version

NewAttemptNumber(db_version, db_status, new_version, new_status) ==
    IF (db_status # "success" /\ new_status = "success")
       \/ new_version > db_version
    THEN db_version + 1
    ELSE db_version

\* the row an UPDATE leaves: every column of the SET clause is replaced,
\* document_id and created_at are kept
UpdatedRow(r, e, n) ==
    [r EXCEPT !.collection_ids = e.collection_ids, !.user_id = e.user_id,
              !.document_type = e.document_type, !.metadata = e.metadata,
              !.title = e.title, !.version = e.version,
              !.size_in_bytes = e.size_in_bytes,
              !.ingestion_status = e.ingestion_status,
              !.kg_extraction_status = e.kg_extraction_status,
              !.updated_at = e.updated_at,
              !.ingestion_attempt_number = n]

\* the tables the concurrent calls start from: empty, or one row for d1
InitialTables ==
    {{}} \cup
    {{DbEntry("d1", InitialTag, s, a)} :
        s \in IngestionStatuses, a \in 0..MaxAttempt}

InitDocWith(tables, batches) ==
    /\ table \in tables
    /\ initialTable = table
    /\ batch \in batches
    /\ rowLock = [d \in DocIds |-> NoWriter]
    /\ wPc = [w \in Writers |-> "loop"]
    /\ idx = [w \in Writers |-> 1]
    /\ cur = [w \in Writers |-> NoDocument]
    /\ existing_doc = [w \in Writers |-> NoExisting]
    /\ uncommitted = [w \in Writers |-> NoWrite]
    /\ retries = [w \in Writers |-> 0]
    /\ wait_time = [w \in Writers |-> 0]
    /\ txnRuns = [w \in Writers |-> 0]

\* `for document_info in documents_overview`: the next document, retries = 0
StartDocument(w, status, attempt) ==
    /\ wPc[w] = "loop"
    /\ idx[w] <= Len(batch[w])
    /\ cur' = [cur EXCEPT ![w] = DbEntry(batch[w][idx[w]], Tag(w, idx[w]),
                                         status, attempt)]
    /\ retries' = [retries EXCEPT ![w] = 0]
    /\ txnRuns' = [txnRuns EXCEPT ![w] = 0]
    /\ wPc' = [wPc EXCEPT ![w] = "select"]
    /\ UNCHANGED <<table, initialTable, batch, rowLock, idx, existing_doc,
                   uncommitted, wait_time>>

\* the for loop is exhausted: upsert_documents_overview returns
ReturnUpsert(w) ==
    /\ wPc[w] = "loop"
    /\ idx[w] > Len(batch[w])
    /\ wPc' = [wPc EXCEPT ![w] = "done"]
    /\ UNCHANGED <<table, initialTable, batch, rowLock, idx, cur, existing_doc,
                   uncommitted, retries, wait_time, txnRuns>>

\* a SELECT ... FOR UPDATE that does not wait for the lock of the row
RowLockIgnored(id) == TRUE

\* FOR UPDATE: the SELECT waits while another transaction holds the row
RowLockFree(id) == rowLock[id] = NoWriter

\* lines 69-78: a transaction begins and SELECT ... FOR UPDATE runs
TxnSelect(w) ==
    /\ wPc[w] = "select"
    /\ LET id == cur[w].document_id
           rows == RowsOf(table, id)
       IN IF rows # {}
          THEN /\ RowLockFree(id)
               /\ rowLock' = [rowLock EXCEPT ![id] = w]
               /\ \E r \in rows :
                    existing_doc' = [existing_doc EXCEPT ![w] =
                        [found |-> TRUE,
                         ingestion_attempt_number |-> r.ingestion_attempt_number,
                         ingestion_status |-> r.ingestion_status]]
          ELSE /\ existing_doc' = [existing_doc EXCEPT ![w] = NoExisting]
               /\ UNCHANGED rowLock
    /\ txnRuns' = [txnRuns EXCEPT ![w] = @ + 1]
    /\ wPc' = [wPc EXCEPT ![w] = "write"]
    /\ UNCHANGED <<table, initialTable, batch, idx, cur, uncommitted, retries,
                   wait_time>>

\* an except clause that gives up one failure early
GivesUpEarly(w) ==
    /\ retries' = [retries EXCEPT ![w] = @ + 1]
    /\ IF retries[w] + 1 = max_retries - 1
       THEN /\ wPc' = [wPc EXCEPT ![w] = "failed"]
            /\ UNCHANGED wait_time
       ELSE /\ wait_time' = [wait_time EXCEPT ![w] = 100 * Pow2(retries[w] + 1)]
            /\ wPc' = [wPc EXCEPT ![w] = "backoff"]
    /\ rowLock' = [d \in DocIds |-> IF rowLock[d] = w THEN NoWriter ELSE rowLock[d]]
    /\ uncommitted' = [uncommitted EXCEPT ![w] = NoWrite]
    /\ UNCHANGED <<table, initialTable, batch, idx, cur, existing_doc, txnRuns>>

\* lines 153-165: the except clause; the transaction is rolled back
HandleConflict(w) ==
    /\ retries' = [retries EXCEPT ![w] = @ + 1]
    /\ IF retries[w] + 1 = max_retries
       THEN /\ wPc' = [wPc EXCEPT ![w] = "failed"]
            /\ UNCHANGED wait_time
       ELSE /\ wait_time' = [wait_time EXCEPT ![w] = 100 * Pow2(retries[w] + 1)]
            /\ wPc' = [wPc EXCEPT ![w] = "backoff"]
    /\ rowLock' = [d \in DocIds |-> IF rowLock[d] = w THEN NoWriter ELSE rowLock[d]]
    /\ uncommitted' = [uncommitted EXCEPT ![w] = NoWrite]
    /\ UNCHANGED <<table, initialTable, batch, idx, cur, existing_doc, txnRuns>>

\* the primary key: an INSERT of a key that a committed row has is refused
PrimaryKeyIgnored(tbl, id) == FALSE

PrimaryKeyTaken(tbl, id) == RowsOf(tbl, id) # {}

\* lines 82-150: the UPDATE of the row found, or the INSERT of a new row
TxnWrite(w) ==
    /\ wPc[w] = "write"
    /\ LET id == cur[w].document_id
           old == existing_doc[w]
       IN IF old.found
          THEN /\ uncommitted' = [uncommitted EXCEPT ![w] =
                    [kind |-> "update",
                     row |-> [cur[w] EXCEPT !.ingestion_attempt_number =
                                NewAttemptNumber(old.ingestion_attempt_number,
                                                 old.ingestion_status,
                                                 cur[w].ingestion_attempt_number,
                                                 cur[w].ingestion_status)]]]
               /\ wPc' = [wPc EXCEPT ![w] = "commit"]
               /\ UNCHANGED <<rowLock, retries, wait_time>>
          ELSE IF PrimaryKeyTaken(table, id)
               THEN HandleConflict(w)
               ELSE /\ \A v \in Writers \ {w} :
                          ~(uncommitted[v].kind = "insert"
                            /\ uncommitted[v].row.document_id = id)
                    /\ uncommitted' = [uncommitted EXCEPT ![w] =
                                          [kind |-> "insert", row |-> cur[w]]]
                    /\ wPc' = [wPc EXCEPT ![w] = "commit"]
                    /\ UNCHANGED <<rowLock, retries, wait_time>>
    /\ UNCHANGED <<table, initialTable, batch, idx, cur, existing_doc, txnRuns>>

\* line 152: the transaction commits and `break` leaves the retry loop
TxnCommit(w) ==
    /\ wPc[w] = "commit"
    /\ LET wr == uncommitted[w] IN
         table' = IF wr.kind = "insert"
                  THEN table \cup {wr.row}
                  ELSE {IF r.document_id = wr.row.document_id
                        THEN UpdatedRow(r, wr.row, wr.row.ingestion_attempt_number)
                        ELSE r : r \in table}
    /\ rowLock' = [d \in DocIds |-> IF rowLock[d] = w THEN NoWriter ELSE rowLock[d]]
    /\ uncommitted' = [uncommitted EXCEPT ![w] = NoWrite]
    /\ idx' = [idx EXCEPT ![w] = @ + 1]
    /\ wPc' = [wPc EXCEPT ![w] = "loop"]
    /\ UNCHANGED <<initialTable, batch, cur, existing_doc, retries, wait_time,
                   txnRuns>>

\* line 165: asyncio.sleep(wait_time) returns and the loop tries again
BackoffOver(w) ==
    /\ wPc[w] = "backoff"
    /\ wPc' = [wPc EXCEPT ![w] = "select"]
    /\ UNCHANGED <<table, initialTable, batch, rowLock, idx, cur, existing_doc,
                   uncommitted, retries, wait_time, txnRuns>>

\* the store raises DeadlockDetectedError in the UPDATE or INSERT statement
TxnDeadlock(w) ==
    /\ wPc[w] = "write"
    /\ HandleConflict(w)

UpsertStep(w) ==
    \/ \E s \in IngestionStatuses, a \in 0..MaxAttempt : StartDocument(w, s, a)
    \/ ReturnUpsert(w)
    \/ TxnSelect(w)
    \/ TxnWrite(w)
    \/ TxnCommit(w)
    \/ BackoffOver(w)

\* two writers, the store raises the conflicts of their own transactions
NextDoc ==
    /\ \E w \in Writers : UpsertStep(w)
    /\ UNCHANGED <<pipeVars, stateVars, storeVars, kgVars>>

\* the exceptions with which the store ends a transaction that conflicts
\* with another one: asyncpg's UniqueViolationError (SQLSTATE 23505),
\* DeadlockDetectedError (40P01) and SerializationError (40001).  The last
\* one is raised by a store whose default isolation level is above READ
\* COMMITTED; conn.transaction() takes the level of the store
ConflictKinds ==
    {"UniqueViolationError", "DeadlockDetectedError", "SerializationError"}

\* an except clause that names UniqueViolationError only
CatchesUniqueViolationOnly(kind) == kind = "UniqueViolationError"

\* lines 153-156: the exceptions the except clause names
Caught(kind) == kind \in {"UniqueViolationError", "DeadlockDetectedError"}

\* an exception no except clause names leaves the transaction, which is
\* rolled back, the retry loop and upsert_documents_overview
Propagate(w) ==
    /\ wPc' = [wPc EXCEPT ![w] = "failed"]
    /\ rowLock' = [d \in DocIds |-> IF rowLock[d] = w THEN NoWriter ELSE rowLock[d]]
    /\ uncommitted' = [uncommitted EXCEPT ![w] = NoWrite]
    /\ UNCHANGED <<table, initialTable, batch, idx, cur, existing_doc, retries,
                   wait_time, txnRuns>>

\* the store raises an exception of this kind in the UPDATE or INSERT
\* statement
TxnRaises(w, kind) ==
    /\ wPc[w] = "write"
    /\ IF Caught(kind) THEN HandleConflict(w) ELSE Propagate(w)

\* one writer with a batch, the store may end any transaction with any of
\* its conflicts
NextConflict ==
    /\ \E w \in Writers :
        \/ UpsertStep(w)
        \/ \E kind \in ConflictKinds : TxnRaises(w, kind)
    /\ UNCHANGED <<pipeVars, stateVars, storeVars, kgVars>>

\* one writer with a batch, the store may raise a conflict in any transaction
NextRetry ==
    /\ \E w \in Writers : UpsertStep(w) \/ TxnDeadlock(w)
    /\ UNCHANGED <<pipeVars, stateVars, storeVars, kgVars>>

\* concurrent calls: each writer upserts one or two documents
ConcurrentBatches ==
    [Writers -> {<<"d1">>, <<"d1", "d1">>}]

\* one call: a single document, or a batch of two documents with different
\* ids or with the same id
SingleBatches ==
    {[w \in Writers |-> IF w = 1 THEN b ELSE <<>>] :
        b \in {<<"d1">>, <<"d1", "d2">>, <<"d1", "d1">>}}

-----------------------------------------------------------------------------
(***************************************************************************)
(* PostgresDocumentHandler: delete_from_documents_overview, the workflow   *)
(* status calls and get_documents_overview                                 *)
(*                                                                         *)
(* Each of these methods sends at most one statement to the store.  A      *)
(* caller makes a call (StoreCall), the method runs, and the caller takes  *)
(* the reply (StoreReturn).  The status calls address the document table   *)
(* of create_tables by the column named after status_type.                 *)
(***************************************************************************)

Users == {1, 2}
Collections == {1, 2}
\* collection_id = None
NoCollection == 0
\* version = None, and version = "" (the empty string); 1 and 2 are labels
NoVersion == -1
EmptyVersion == 0
VersionLabels == {1, 2}

\* Python truth value of a version argument
TruthyVersion(v) == v # NoVersion /\ v # EmptyVersion

\* an optional list argument: None, or a list
NoList == [given |-> FALSE, ids |-> <<>>]
List(q) == [given |-> TRUE, ids |-> q]
\* Python truth value of an optional list
TruthyList(l) == l.given /\ l.ids # <<>>

\* a row of the table of create_tables
StoreRow(id, version, user, colls, ingestion, kg, created) ==
    [document_id |-> id, collection_ids |-> colls, user_id |-> user,
     document_type |-> 0, metadata |-> 0, title |-> 0, version |-> version,
     size_in_bytes |-> 0, ingestion_status |-> ingestion,
     kg_extraction_status |-> kg, created_at |-> created,
     updated_at |-> created, ingestion_attempt_number |-> 0]

\* the tables a call may find: d1 and d2 present or not; d2 created before
\* d1, at the same time, or after it
StoreTables ==
    {r1 \cup r2 :
        r1 \in {{}} \cup {{StoreRow("d1", 1, 1, {1}, "pending", kg, 2)} :
                            kg \in {"pending", "success"}},
        r2 \in {{}} \cup {{StoreRow("d2", 2, 2, {1, 2}, "success", "pending", t)} :
                            t \in 1..3}}

\* the status columns of the table
StatusColumns == {"ingestion_status", "kg_extraction_status"}

\* the status_type arguments: the ones _get_status_model knows that address
\* the document table, a column name and a track name it does not know
StatusTypes == {"ingestion", "kg_extraction_status", "ingestion_status",
                "kg_extraction"}

\* the id argument: one UUID or a list of UUIDs
IdArguments ==
    {[scalar |-> TRUE, ids |-> <<d>>] : d \in DocIds}
    \cup {[scalar |-> FALSE, ids |-> q] :
            q \in {<<>>, <<"d1", "d2">>, <<"d2", "d1">>}}

\* the status argument of get_document_ids_by_status: a string or a list
StatusArguments ==
    {[scalar |-> TRUE, ids |-> <<"pending">>],
     [scalar |-> FALSE, ids |-> <<"pending", "success">>],
     [scalar |-> FALSE, ids |-> <<>>]}

NoCall ==
    [op |-> "none", scalar |-> FALSE, ids |-> <<>>, version |-> NoVersion,
     status_type |-> "", scalarStatus |-> FALSE, statuses |-> <<>>,
     collection_id |-> NoCollection, filter_document_ids |-> NoList,
     filter_user_ids |-> NoList, filter_collection_ids |-> NoList,
     offset |-> 0, limit |-> -1]

DeleteCalls ==
    {[NoCall EXCEPT !.op = "delete_from_documents_overview",
                    !.scalar = TRUE, !.ids = <<d>>, !.version = v] :
        d \in DocIds, v \in {NoVersion, EmptyVersion} \cup VersionLabels}

GetStatusCalls ==
    {[NoCall EXCEPT !.op = "get_workflow_status", !.scalar = a.scalar,
                    !.ids = a.ids, !.status_type = t] :
        a \in IdArguments, t \in StatusTypes}

SetStatusCalls ==
    {[NoCall EXCEPT !.op = "set_workflow_status", !.scalar = a.scalar,
                    !.ids = a.ids, !.status_type = t, !.scalarStatus = TRUE,
                    !.statuses = <<s>>] :
        a \in IdArguments, t \in StatusTypes, s \in {"pending", "success"}}

GetIdsCalls ==
    {[NoCall EXCEPT !.op = "get_document_ids_by_status", !.status_type = t,
                    !.scalarStatus = a.scalar, !.statuses = a.ids,
                    !.collection_id = c] :
        t \in StatusTypes, a \in StatusArguments,
        c \in {NoCollection} \cup Collections}

OverviewCalls ==
    {[NoCall EXCEPT !.op = "get_documents_overview",
                    !.filter_document_ids = fd, !.filter_user_ids = fu,
                    !.filter_collection_ids = fc, !.offset = o, !.limit = l] :
        fd \in {NoList, List(<<>>), List(<<"d1">>)},
        fu \in {NoList, List(<<>>), List(<<2>>)},
        fc \in {NoList, List(<<>>), List(<<2>>), List(<<1, 2>>)},
        o \in 0..MaxOffset, l \in -1..MaxLimit}

StoreCalls ==
    DeleteCalls \cup GetStatusCalls \cup SetStatusCalls \cup GetIdsCalls
    \cup OverviewCalls

\* what a call returns or raises
Reply(kind) == [kind |-> kind, code |-> 0, text |-> "", list |-> <<>>, total |-> 0]
NoReply == Reply("none")
RepliedNone == Reply("None")
R2RException(status_code, message) ==
    [Reply("R2RException") EXCEPT !.code = status_code, !.text = message]

\* no call has been made
InitStoreCalls ==
    /\ storePc = "idle"
    /\ call = NoCall
    /\ reply = NoReply
    /\ before = table
    /\ queries = 0

\* the elements of a set in every order: the order of rows a statement
\* without ORDER BY returns is the store's choice
Orderings(S) ==
    {q \in [1..Cardinality(S) -> S] :
        \A i, j \in 1..Cardinality(S) : i # j => q[i] # q[j]}

\* a caller calls one of the methods
StoreCall(c) ==
    /\ storePc = "idle"
    /\ storePc' = "called"
    /\ call' = c
    /\ before' = table
    /\ queries' = 0
    /\ UNCHANGED <<table, reply>>

\* the caller has the reply
StoreReturn ==
    /\ storePc = "replied"
    /\ storePc' = "idle"
    /\ call' = NoCall
    /\ reply' = NoReply
    /\ UNCHANGED <<table, before, queries>>

\* the method ends with reply r after sending n statements that leave tbl
Replies(r, n, tbl) ==
    /\ storePc' = "replied"
    /\ reply' = r
    /\ queries' = n
    /\ table' = tbl
    /\ UNCHANGED <<call, before>>

\* a WHERE clause that leaves the version out
DeletesAnyVersion(r, id, version) == r.document_id = id

\* lines 170-179: the WHERE clause of the DELETE
DeleteWhere(r, id, version) ==
    /\ r.document_id = id
    /\ TruthyVersion(version) => r.version = version

\* lines 167-181
delete_from_documents_overview ==
    /\ storePc = "called"
    /\ call.op = "delete_from_documents_overview"
    /\ Replies(RepliedNone, 1,
               {r \in table : ~DeleteWhere(r, call.ids[1], call.version)})

\* a dispatch that takes every status type for the ingestion track
AnyStatusModel(status_type) == "IngestionStatus"

\* lines 257-276: the enumeration of a status type, "" standing for the raise
get_status_model(status_type) ==
    IF status_type = "ingestion" THEN "IngestionStatus"
    ELSE IF status_type = "kg_extraction_status" THEN "KGExtractionStatus"
    ELSE IF status_type = "kg_enrichment_status" THEN "KGEnrichmentStatus"
    ELSE ""

\* lines 274-276
InvalidStatusType(status_type) == R2RException(400, status_type)

\* the store refuses a statement that names a column the table does not have
UndefinedColumn == Reply("UndefinedColumnError")

\* lines 201-205: the status column of the rows whose id is in ids, in the
\* order the store returns them
StatusFromTable(tbl, ids, column) ==
    {[i \in 1..Len(q) |-> q[i][column]] :
        q \in Orderings({r \in tbl : r.document_id \in Range(ids)})}

\* lines 293-303: list(map(records, out_model)) calls its first argument on
\* the members of its second one; the first argument is the list of records,
\* which is not callable
MapRecordsOverModel(records, out_model) == Reply("TypeError")

\* lines 278-304
get_workflow_status ==
    /\ storePc = "called"
    /\ call.op = "get_workflow_status"
    /\ LET out_model == get_status_model(call.status_type) IN
       IF out_model = ""
       THEN Replies(InvalidStatusType(call.status_type), 0, table)
       ELSE IF call.status_type \notin StatusColumns
            THEN Replies(UndefinedColumn, 1, table)
            ELSE \E records \in StatusFromTable(table, call.ids, call.status_type) :
                    Replies(MapRecordsOverModel(records, out_model), 1, table)

\* an UPDATE without the WHERE clause
SetStatusInEveryRow(tbl, ids, status, column) ==
    {[r EXCEPT ![column] = status] : r \in tbl}

\* lines 250-255: the UPDATE of the status column
SetStatusInTable(tbl, ids, status, column) ==
    {IF r.document_id \in Range(ids) THEN [r EXCEPT ![column] = status] ELSE r :
        r \in tbl}

\* lines 306-326
set_workflow_status ==
    /\ storePc = "called"
    /\ call.op = "set_workflow_status"
    /\ LET out_model == get_status_model(call.status_type) IN
       IF out_model = ""
       THEN Replies(InvalidStatusType(call.status_type), 0, table)
       ELSE IF call.status_type \notin StatusColumns
            THEN Replies(UndefinedColumn, 1, table)
            ELSE Replies(RepliedNone, 1,
                         SetStatusInTable(table, call.ids, call.statuses[1],
                                          call.status_type))

\* lines 222-225: `$2 = ANY(collection_ids)` is part of every statement; with
\* collection_id None it compares NULL and is true of no row
IdsWhere(r, statuses, column, collection_id) ==
    /\ r[column] \in Range(statuses)
    /\ collection_id # NoCollection
    /\ collection_id \in r.collection_ids

\* lines 207-230: the ids of the rows selected, in the order of the store
IdsFromTable(tbl, statuses, column, collection_id) ==
    {[i \in 1..Len(q) |-> q[i].document_id] :
        q \in Orderings({r \in tbl : IdsWhere(r, statuses, column, collection_id)})}

\* lines 328-350
get_document_ids_by_status ==
    /\ storePc = "called"
    /\ call.op = "get_document_ids_by_status"
    /\ LET out_model == get_status_model(call.status_type) IN
       IF out_model = ""
       THEN Replies(InvalidStatusType(call.status_type), 0, table)
       ELSE IF call.status_type \notin StatusColumns
            THEN Replies(UndefinedColumn, 1, table)
            ELSE \E document_ids \in IdsFromTable(table, call.statuses,
                                                  call.status_type,
                                                  call.collection_id) :
                    Replies([Reply("list") EXCEPT !.list = document_ids], 1, table)

\* lines 364-384: the conditions of the WHERE clause, one for every filter
\* that is true in Python (neither None nor an empty list)
OverviewWhere(r, c) ==
    /\ TruthyList(c.filter_document_ids) =>
            r.document_id \in Range(c.filter_document_ids.ids)
    /\ TruthyList(c.filter_user_ids) =>
            r.user_id \in Range(c.filter_user_ids.ids)
    /\ TruthyList(c.filter_collection_ids) =>
            r.collection_ids \cap Range(c.filter_collection_ids.ids) # {}

\* an ORDER BY created_at ASC
OldestFirst(q) == \A i, j \in 1..Len(q) : i < j => q[i].created_at <= q[j].created_at

\* line 391: ORDER BY created_at DESC; rows of equal created_at in any order
NewestFirst(q) == \A i, j \in 1..Len(q) : i < j => q[i].created_at >= q[j].created_at

\* lines 392-400: OFFSET, and LIMIT unless limit is -1
Page(q, offset, limit) ==
    SubSeq(q, offset + 1,
           IF limit = -1 THEN Len(q)
           ELSE IF offset + limit < Len(q) THEN offset + limit ELSE Len(q))

\* lines 406-424: the DocumentInfo of a row of the result
DocumentInfo(r) ==
    [id |-> r.document_id, collection_ids |-> r.collection_ids,
     user_id |-> r.user_id, document_type |-> r.document_type,
     metadata |-> r.metadata, title |-> r.title, version |-> r.version,
     size_in_bytes |-> r.size_in_bytes, ingestion_status |-> r.ingestion_status,
     kg_extraction_status |-> r.kg_extraction_status,
     created_at |-> r.created_at, updated_at |-> r.updated_at]

\* lines 386-404: the rows of the page, each with the window count of all
\* selected rows; total_entries is read from the first row of the page
OverviewReply(q, offset, limit) ==
    LET results == Page(q, offset, limit) IN
    [Reply("overview") EXCEPT
        !.list = [i \in 1..Len(results) |-> DocumentInfo(results[i])],
        !.total = IF results # <<>> THEN Len(q) ELSE 0]

\* lines 352-431
get_documents_overview ==
    /\ storePc = "called"
    /\ call.op = "get_documents_overview"
    /\ \E q \in {o \in Orderings({r \in table : OverviewWhere(r, call)}) :
                    NewestFirst(o)} :
            Replies(OverviewReply(q, call.offset, call.limit), 1, table)

NextStore ==
    /\ \/ \E c \in StoreCalls : StoreCall(c)
       \/ delete_from_documents_overview
       \/ get_workflow_status
       \/ set_workflow_status
       \/ get_document_ids_by_status
       \/ get_documents_overview
       \/ StoreReturn
    /\ UNCHANGED <<pipeVars, stateVars, kgVars, initialTable, rowLock, batch,
                   idx, wPc, cur, existing_doc, uncommitted, retries, wait_time,
                   txnRuns>>

-----------------------------------------------------------------------------
(***************************************************************************)
(* KGSearchSearchPipe.filter_responses                                     *)
(*                                                                         *)
(* A response is the text an upstream call returned.  The model keeps of   *)
(* it what filter_responses looks at: whether json.loads accepts it, the   *)
(* type of the value it parses to, its "points" entry, and of every point  *)
(* its type, its "score" and its "description".  Scores are in tenths.     *)
(***************************************************************************)

\* an entry of "points"
Point(type, hasScore, scoreIsNumber, score, hasDescription, description) ==
    [type |-> type, hasScore |-> hasScore, scoreIsNumber |-> scoreIsNumber,
     score |-> score, hasDescription |-> hasDescription,
     description |-> description]

\* {"score": s, "description": d}
Scored(s, d) == Point("object", TRUE, TRUE, s, TRUE, d)
\* {"description": d}
NoScore(d) == Point("object", FALSE, FALSE, 0, TRUE, d)
\* {"score": "high", "description": d}
TextScore(d) == Point("object", TRUE, FALSE, 0, TRUE, d)
\* {"score": s}
NoDescription(s) == Point("object", TRUE, TRUE, s, FALSE, "")
\* a point that is a number
NumberPoint == Point("number", FALSE, FALSE, 0, FALSE, "")

\* a response
Response(json, type, hasPoints, pointsIsList, points) ==
    [json |-> json, type |-> type, hasPoints |-> hasPoints,
     pointsIsList |-> pointsIsList, points |-> points]

\* {"points": [...]}
WithPoints(points) == Response(TRUE, "object", TRUE, TRUE, points)
\* text that is not JSON
NotJson == Response(FALSE, "none", FALSE, FALSE, <<>>)
\* JSON text of a value that is not an object: [1, 2], 5, "text"
JsonValue(type) == Response(TRUE, type, FALSE, FALSE, <<>>)
\* {"summary": "..."}: an object without "points"
NoPoints == Response(TRUE, "object", FALSE, FALSE, <<>>)
\* {"points": 5}
PointsNumber == Response(TRUE, "object", TRUE, FALSE, <<>>)

\* the responses a call may be given
Responses ==
    { NotJson, JsonValue("array"), JsonValue("number"), JsonValue("string"),
      NoPoints, PointsNumber,
      WithPoints(<<>>),
      WithPoints(<<Scored(9, "A")>>),
      WithPoints(<<Scored(5, "B"), Scored(9, "C")>>),
      WithPoints(<<Scored(0, "Z"), Scored(5, "D")>>),
      WithPoints(<<NoScore("N")>>),
      WithPoints(<<NoScore("N"), Scored(7, "E")>>),
      WithPoints(<<Scored(7, "F"), TextScore("T")>>),
      WithPoints(<<NumberPoint>>),
      WithPoints(<<NoDescription(5)>>) }

RECURSIVE SeqsUpTo(_, _)
\* the sequences over S of length at most n
SeqsUpTo(S, n) ==
    IF n = 0 THEN {<<>>}
    ELSE LET shorter == SeqsUpTo(S, n - 1)
         IN shorter \cup {Append(q, x) : q \in shorter, x \in S}

\* what filter_responses returns or raises
KgText(t) == [kind |-> "text", text |-> t]
KgTypeError == [kind |-> "TypeError", text |-> ""]
NoKgResult == [kind |-> "none", text |-> ""]

InitKgWith(inputs) ==
    /\ map_responses \in inputs
    /\ kgPc = "called"
    /\ kgResult = NoKgResult

\* the state of the loops: the points kept so far, or the exception that is
\* not caught
Kept(points) == [raised |-> FALSE, points |-> points]
Raised == [raised |-> TRUE, points |-> <<>>]

RECURSIVE FilterPoints(_, _)
\* lines 63-71: the loop over parsed_response["points"].  item["score"] of
\* a point that is not an object and the comparison of a score that is not a
\* number with 0 raise TypeError; only KeyError is caught
FilterPoints(points, kept) ==
    IF points = <<>> THEN Kept(kept)
    ELSE LET item == Head(points) IN
         IF item.type # "object" THEN Raised
         ELSE IF ~item.hasScore THEN FilterPoints(Tail(points), kept)
         ELSE IF ~item.scoreIsNumber THEN Raised
         ELSE IF item.score > 0
              THEN FilterPoints(Tail(points), Append(kept, item))
              ELSE FilterPoints(Tail(points), kept)

RECURSIVE FilterLoop(_, _)
\* lines 60-80: the loop over map_responses.  JSONDecodeError and KeyError
\* are caught; parsed_response["points"] of a value that is not an object
\* and the iteration of a number raise TypeError
FilterLoop(responses, kept) ==
    IF responses = <<>> THEN Kept(kept)
    ELSE LET response == Head(responses) IN
         IF ~response.json THEN FilterLoop(Tail(responses), kept)
         ELSE IF response.type # "object" THEN Raised
         ELSE IF ~response.hasPoints THEN FilterLoop(Tail(responses), kept)
         ELSE IF ~response.pointsIsList THEN Raised
         ELSE LET inner == FilterPoints(response.points, kept) IN
              IF inner.raised THEN Raised
              ELSE FilterLoop(Tail(responses), inner.points)

RECURSIVE InsertAscending(_, _)
\* a sort that puts the smallest score first
InsertAscending(sorted, item) ==
    IF sorted = <<>> THEN <<item>>
    ELSE IF Head(sorted).score <= item.score
         THEN <<Head(sorted)>> \o InsertAscending(Tail(sorted), item)
         ELSE <<item>> \o sorted

RECURSIVE InsertByScore(_, _)
\* the place of an item in a list sorted by score, largest first: after the
\* items of a larger or of the same score (the sort is stable)
InsertByScore(sorted, item) ==
    IF sorted = <<>> THEN <<item>>
    ELSE IF Head(sorted).score >= item.score
         THEN <<Head(sorted)>> \o InsertByScore(Tail(sorted), item)
         ELSE <<item>> \o sorted

RECURSIVE SortedByScore(_)
\* lines 82-84: sorted(filtered_responses, key=score, reverse=True)
SortedByScore(items) ==
    IF items = <<>> THEN <<>>
    ELSE InsertByScore(SortedByScore(SubSeq(items, 1, Len(items) - 1)),
                       items[Len(items)])

\* the separator of the join
Newline == "\n"

RECURSIVE Join(_)
\* lines 86-91: "\n".join of the descriptions, "" for a missing one
Join(items) ==
    IF items = <<>> THEN ""
    ELSE IF Len(items) = 1 THEN items[1].description
    ELSE items[1].description \o Newline \o Join(Tail(items))

\* lines 58-92
FilterResponses(responses) ==
    LET filtered == FilterLoop(responses, <<>>) IN
    IF filtered.raised THEN KgTypeError
    ELSE KgText(Join(SortedByScore(filtered.points)))

\* filter_responses is called with map_responses and returns or raises
filter_responses ==
    /\ kgPc = "called"
    /\ kgPc' = "returned"
    /\ kgResult' = FilterResponses(map_responses)
    /\ UNCHANGED map_responses

NextKg ==
    /\ filter_responses
    /\ UNCHANGED <<pipeVars, stateVars, docVars, storeVars, searchVars>>

-----------------------------------------------------------------------------
(***************************************************************************)
(* KGSearchSearchPipe.local_search                                         *)
(*                                                                         *)
(* The generator takes the messages one by one; for each it gets the       *)
(* embedding, sends the entity query and yields a result for every hit,    *)
(* then sends the community query and yields a result for every hit.  The  *)
(* index answers a query with any of HitLists.                             *)
(***************************************************************************)

\* the message streams of a call
MessageLists ==
    {<<>>, <<"m1">>, <<"m1", "m2">>, <<"m2", "m1">>, <<"m1", "m1">>}

\* the answers of the index: the names of the hits, in its order
HitLists == {<<>>, <<"h1">>, <<"h1", "h2">>, <<"h2", "h1">>}

\* lines 128-137 and 188-201: the result yielded for a hit
KGSearchResult(content, method, result_type, associated_query) ==
    [content |-> content, method |-> method, result_type |-> result_type,
     metadata |-> [associated_query |-> associated_query]]

\* lines 129-132 and 189-195: the payload, of the shape of its index
Content(search_type, search_result) ==
    [shape |-> IF search_type = "__Entity__" THEN "KGEntityResult"
               ELSE "KGCommunityResult",
     name |-> search_result]

\* lines 134 and 197: the result type of a search type
ResultType(search_type) ==
    IF search_type = "__Entity__" THEN "ENTITY" ELSE "COMMUNITY"

\* a query as vector_query receives it, with the answer of the index and the
\* number of results the generator had yielded when it was sent
VectorQuery(message, search_type, hits, yielded_before) ==
    [message |-> message, search_type |-> search_type, hits |-> hits,
     yielded_before |-> yielded_before]

InitSearchWith(inputs) ==
    /\ messages \in inputs
    /\ message_index = 0
    /\ searchPc = "message"
    /\ search_results = <<>>
    /\ yielded_results = <<>>
    /\ vector_queries = <<>>

\* lines 106-109: the next message is taken and its embedding is awaited
NextMessage ==
    /\ searchPc = "message"
    /\ message_index < Len(messages)
    /\ message_index' = message_index + 1
    /\ searchPc' = "embedded"
    /\ UNCHANGED <<messages, search_results, yielded_results, vector_queries>>

\* line 106: the messages are exhausted and the generator ends
SearchExhausted ==
    /\ searchPc = "message"
    /\ message_index = Len(messages)
    /\ searchPc' = "done"
    /\ UNCHANGED <<messages, message_index, search_results, yielded_results,
                   vector_queries>>

\* lines 113-127 and 170-187: vector_query is awaited with the message and
\* the search type, and the index answers
SendQuery(search_type, hits) ==
    /\ vector_queries' =
          Append(vector_queries,
                 VectorQuery(messages[message_index], search_type, hits,
                             Len(yielded_results)))
    /\ search_results' = hits
    /\ UNCHANGED <<messages, message_index, yielded_results>>

\* lines 112-127: the entity query
EntityQuery(hits) ==
    /\ searchPc = "embedded"
    /\ searchPc' = "entity"
    /\ SendQuery("__Entity__", hits)

\* a loop that takes the results of the query from the end
YieldsLastHit(pc, search_type) ==
    /\ searchPc = pc
    /\ search_results # <<>>
    /\ yielded_results' =
          Append(yielded_results,
                 KGSearchResult(Content(search_type,
                                        search_results[Len(search_results)]),
                                "LOCAL", ResultType(search_type),
                                messages[message_index]))
    /\ search_results' = SubSeq(search_results, 1, Len(search_results) - 1)
    /\ UNCHANGED <<messages, message_index, searchPc, vector_queries>>

\* lines 113-137 and 170-201: one iteration of `async for search_result`,
\* which yields the result of the next hit
YieldHit(pc, search_type) ==
    /\ searchPc = pc
    /\ search_results # <<>>
    /\ yielded_results' =
          Append(yielded_results,
                 KGSearchResult(Content(search_type, Head(search_results)),
                                "LOCAL", ResultType(search_type),
                                messages[message_index]))
    /\ search_results' = Tail(search_results)
    /\ UNCHANGED <<messages, message_index, searchPc, vector_queries>>

\* lines 168-187: the entity results are exhausted; the community query
CommunityQuery(hits) ==
    /\ searchPc = "entity"
    /\ search_results = <<>>
    /\ searchPc' = "community"
    /\ SendQuery("__Community__", hits)

\* the community results are exhausted: back to line 106
MessageDone ==
    /\ searchPc = "community"
    /\ search_results = <<>>
    /\ searchPc' = "message"
    /\ UNCHANGED <<messages, message_index, search_results, yielded_results,
                   vector_queries>>

NextSearch ==
    /\ \/ NextMessage
       \/ SearchExhausted
       \/ \E hits \in HitLists : EntityQuery(hits)
       \/ YieldHit("entity", "__Entity__")
       \/ \E hits \in HitLists : CommunityQuery(hits)
       \/ YieldHit("community", "__Community__")
       \/ MessageDone
    /\ UNCHANGED <<pipeVars, stateVars, docVars, storeVars, map_responses,
                   kgPc, kgResult>>

\* the components the specification is not about stay as constructed
InitDocQuiet == InitDocWith({{}}, {[w \in Writers |-> <<>>]})

\* no call of filter_responses but one with no responses, and no search
InitKgQuiet == InitKgWith({<<>>}) /\ InitSearchWith({<<>>})

\* the pipe and the state as constructed
InitBase == InitPipe /\ InitState

Init == InitBase /\ InitDocQuiet /\ InitStoreCalls /\ InitKgQuiet

SpecState == Init /\ [][NextState]_vars

SpecPipe == Init /\ [][NextPipe]_vars

InitDoc ==
    /\ InitBase /\ InitDocWith(InitialTables, ConcurrentBatches)
    /\ InitStoreCalls /\ InitKgQuiet

SpecDoc == InitDoc /\ [][NextDoc]_vars

InitRetry ==
    /\ InitBase /\ InitDocWith({{}}, SingleBatches)
    /\ InitStoreCalls /\ InitKgQuiet

SpecRetry == InitRetry /\ [][NextRetry]_vars

\* the table holds any of the StoreTables and no upsert is under way
InitStore ==
    /\ InitBase /\ InitDocWith(StoreTables, {[w \in Writers |-> <<>>]})
    /\ InitStoreCalls /\ InitKgQuiet

SpecStore == InitStore /\ [][NextStore]_vars

\* filter_responses is called with up to MaxResponses responses
InitKg ==
    /\ InitBase /\ InitDocQuiet /\ InitStoreCalls
    /\ InitKgWith(SeqsUpTo(Responses, MaxResponses))
    /\ InitSearchWith({<<>>})

SpecKg == InitKg /\ [][NextKg]_vars

\* local_search is called with any of the message streams
InitSearch ==
    /\ InitBase /\ InitDocQuiet /\ InitStoreCalls
    /\ InitKgWith({<<>>})
    /\ InitSearchWith(MessageLists)

SpecSearch == InitSearch /\ [][NextSearch]_vars

SpecConflict == InitRetry /\ [][NextConflict]_vars

\* the event loop resumes the call and the store answers every statement
FairRetry == SpecRetry /\ WF_vars(NextRetry)

-----------------------------------------------------------------------------
(***************************************************************************)
(* Properties of AsyncPipe                                                 *)
(***************************************************************************)


\* C1: a run call that never overlapped another call on the same pipe has, when
\* it is over (core logic exhausted, core logic raised, or consumer closed the
\* generator), a worker task that is finished: the call cancelled its own task
\* and awaited it, unless the task had already ended by itself because
\* logging_provider.log raised.
C1_SingleCallWorkerFinished ==
    \A c \in Calls :
        (callPc[c] = "ended" /\ ~overlapped[c]) =>
            /\ TaskDone(c)
            /\ taskState[c] = "cancelled" => awaited[c] = c
            /\ taskState[c] = "failed" => awaited[c] = NoTask

\* C1 witness: two calls made one after the other, one closed by its consumer
\* and one whose core logic raised, both over with their worker cancelled.
C1_Witness ==
    /\ \A c \in Calls : callPc[c] = "ended" /\ ~overlapped[c]
                        /\ taskState[c] = "cancelled"
    /\ callOutcome[1] = "closed"
    /\ callOutcome[2] = "raised"

\* C2: whenever a run call is over, the worker task that this call created is
\* finished, whatever the interleaving with other calls on the same pipe.
C2_NoWorkerLeaked ==
    \A c \in Calls : callPc[c] = "ended" => TaskDone(c)

\* the events of call c that have been handed to logging_provider.log and
\* persisted
LoggedOf(q, c) == {i \in 1..Len(q) : q[i][1] = c}

\* C23: when a run call returns the log queue is empty, the events that the
\* finally block found in the queue are never persisted, and no event of
\* the call is persisted once the call has returned.
C23_FlushedOnReturn ==
    [][\A c \in Calls :
        /\ (callPc[c] # "ended" /\ callPc'[c] = "ended") => log_queue' = <<>>
        /\ (callOutcome[c] = "none" /\ callOutcome'[c] # "none") =>
                Range(log_queue) \cap Range(logged') = {}
        /\ callPc[c] = "ended" => LoggedOf(logged', c) = LoggedOf(logged, c)]_vars

\* the events of a sequence are distinct and those of one call are in the
\* order of their enqueue_log calls
InEnqueueOrder(q) ==
    \A i, j \in 1..Len(q) :
        i < j => /\ q[i] # q[j]
                 /\ q[i][1] = q[j][1] => q[i][2] < q[j][2]

\* C25: every event a worker passes to logging_provider.log is the oldest
\* event of the queue and leaves the queue with that step; no event is
\* passed or persisted twice, the persisted events have been passed, and the
\* events of one call are passed and persisted in the order the call
\* enqueued them, whether or not calls overlap.
C25_FifoAtMostOnce ==
    /\ [](/\ InEnqueueOrder(handed)
          /\ InEnqueueOrder(logged)
          /\ Range(logged) \subseteq Range(handed))
    /\ [][handed' # handed =>
            /\ log_queue # <<>>
            /\ handed' = Append(handed, Head(log_queue))
            /\ log_queue' = Tail(log_queue)]_vars

\* C25 witness: two calls overlap and their workers are inside
\* logging_provider.log at once with two events of one call, the first of
\* which was enqueued, and passed to log, before the second.
C25_Witness ==
    /\ \A c \in Calls : overlapped[c] /\ taskState[c] = "logging"
    /\ \E c \in Calls :
        /\ handed = <<<<c, 1>>, <<c, 2>>>>
        /\ Range(handed) = {taskItem[t] : t \in Calls}

\* C26: whenever logging_provider.log has raised in a worker, no call ends
\* with the logging error; a call that waits in its finally block waits for
\* a task that has been cancelled, never for the failed one, and the queue
\* it emptied holds nothing it waits for; the core logic of a running call
\* can still yield, enqueue and end.
C26_LogFailureIsolated ==
    \A c \in Calls :
        /\ callOutcome[c] # "logging_error"
        /\ callPc[c] = "awaiting" =>
                taskState[awaited[c]] \in {"cancelling", "cancelled"}
        /\ (callPc[c] = "running" /\ \E t \in Calls : taskState[t] = "failed") =>
                /\ ENABLED CoreExhausted(c)
                /\ yielded[c] < MaxResults => ENABLED CoreYield(c)
                /\ enqueued[1] + enqueued[2] < MaxEvents => ENABLED CoreEnqueue(c)

\* C26 witness: a call that never overlapped another has ended by exhaustion
\* with every result of its core logic yielded, and the log call of its
\* worker for its first event raised.
C26_Witness ==
    \E c \in Calls :
        /\ taskState[c] = "failed"
        /\ ~overlapped[c]
        /\ callPc[c] = "ended"
        /\ callOutcome[c] = "exhausted"
        /\ yielded[c] = MaxResults
        /\ <<c, 1>> \in Range(handed) \ Range(logged)

\* C9: the log queue never holds more than max_log_queue_size events, and
\* every enqueue_log call returns, leaving a full queue as it was and putting
\* the event at the tail of a queue that is not full.
C9_QueueBounded ==
    /\ [](Len(log_queue) <= max_log_queue_size)
    /\ [][\A c \in Calls :
            enqueued'[c] # enqueued[c] =>
                IF Len(log_queue) >= max_log_queue_size
                THEN log_queue' = log_queue
                ELSE log_queue' = Append(log_queue, <<c, enqueued'[c]>>)]_vars

\* C9 witness: the queue is full and the last event of a call was dropped (no
\* call has flushed the queue, and the event is neither queued, nor with a
\* worker, nor logged).
C9_Witness ==
    /\ Len(log_queue) = max_log_queue_size
    /\ \A c \in Calls : callPc[c] \in {"idle", "running", "yielded"}
    /\ \E c \in Calls :
        /\ enqueued[c] >= 1
        /\ <<c, enqueued[c]>> \notin Range(log_queue) \cup Range(logged)
        /\ \A t \in Calls : taskItem[t] # <<c, enqueued[c]>>

-----------------------------------------------------------------------------
(***************************************************************************)
(* Properties of AsyncState                                                *)
(***************************************************************************)

\* C10: under every interleaving of update, get and delete calls, at most one
\* client is inside an operation body, so no get runs while an update has
\* merged only part of its pairs; whenever the lock is free the dictionary
\* equals the one obtained by applying the completed operations one at a
\* time, in the order they released the lock; and every completed operation
\* returned or raised what it does in that serial order.
C10_Serialized ==
    /\ Cardinality({p \in Clients : clientPc[p] # "idle"}) <= 1
    /\ lock = NoClient => data = serData
    /\ \A p \in Clients :
        (clientPc[p] = "idle" /\ opsDone[p] > 0) => result[p] = serResult[p]

\* C10 witness: both clients have completed two operations each; the last one
\* of one client is a get that returned a value written by a two-pair update,
\* the last one of the other client a delete that succeeded.
C10_Witness ==
    \E p, q \in Clients :
        /\ p # q
        /\ clientPc[p] = "idle" /\ opsDone[p] >= 2
        /\ clientPc[q] = "idle" /\ opsDone[q] >= 2
        /\ clientOp[q].kind = "get" /\ result[q] = Returned(2)
        /\ clientOp[p].kind = "delete" /\ result[p] = ReturnedNone

\* client p has run the body of an operation of this kind and still holds the
\* lock: serData is the dictionary the body found
BodyDone(p, kind) == clientPc[p] = "leaving" /\ clientOp[p].kind = kind

\* C11: a get on a bucket that exists and lacks the inner key returns the
\* default the caller supplied, whatever its value (0 included), returns the
\* empty map only when no default was supplied, and leaves the dictionary as
\* it was.
C11_GetReturnsDefault ==
    \A p \in Clients :
        (/\ BodyDone(p, "get")
         /\ serData[clientOp[p].outer].present
         /\ serData[clientOp[p].outer].items[clientOp[p].inner] = Missing) =>
            /\ result[p] = IF clientOp[p].default = NoneValue
                           THEN ReturnedEmptyMap
                           ELSE Returned(clientOp[p].default)
            /\ data = serData

\* C12: get and delete (with an inner key or without one) on an outer key
\* that is not in the dictionary fail with the error get raises for a missing
\* outer key, ValueError, and leave the dictionary as it was.
C12_AbsentOuterKeyFails ==
    \A p \in Clients :
        (/\ BodyDone(p, "get") \/ BodyDone(p, "delete")
         /\ ~serData[clientOp[p].outer].present) =>
            /\ result[p] = RaisedValueError
            /\ data = serData

\* C27: on a bucket that exists, delete without an inner key removes the
\* bucket and nothing else; delete with an inner key, the empty string
\* included, removes that one entry and nothing else when the bucket has it,
\* and fails with ValueError and leaves the dictionary as it was when the
\* bucket has not.
C27_DeleteFrame ==
    \A p \in Clients :
        (/\ BodyDone(p, "delete")
         /\ serData[clientOp[p].outer].present) =>
            LET outer == clientOp[p].outer
                inner == clientOp[p].inner
            IN
            IF inner = NoneKey
            THEN /\ data = [serData EXCEPT ![outer] = Absent]
                 /\ result[p] = ReturnedNone
            ELSE IF serData[outer].items[inner] # Missing
            THEN /\ data = [serData EXCEPT ![outer].items[inner] = Missing]
                 /\ result[p] = ReturnedNone
            ELSE /\ data = serData
                 /\ result[p] = RaisedValueError

-----------------------------------------------------------------------------
(***************************************************************************)
(* Properties of upsert_documents_overview                                 *)
(***************************************************************************)

\* the one row of a document id
RowOf(tbl, id) == CHOOSE r \in RowsOf(tbl, id) : TRUE

\* C3: no committed write lowers the ingestion_attempt_number stored for a
\* document id.
C3_AttemptNumberNeverDecreases ==
    [][\A d \in DocIds :
        RowsOf(table, d) # {} =>
            /\ RowsOf(table', d) # {}
            /\ \A old \in RowsOf(table, d), new \in RowsOf(table', d) :
                new.ingestion_attempt_number >= old.ingestion_attempt_number]_vars

\* C3 witness: committed writes have raised the stored number to 2 and both
\* calls have returned.
C3_Witness ==
    /\ \A w \in Writers : wPc[w] = "done"
    /\ \E r \in table : r.ingestion_attempt_number = 2

\* C4: the commit of an update stores the number of the row it replaces plus
\* one if that row's status is not success and the incoming status is success,
\* or if the incoming number is greater than that row's number, and stores that
\* row's number otherwise.
C4_AttemptNumberRule ==
    [][\A w \in Writers :
        (wPc[w] = "commit" /\ wPc'[w] = "loop" /\ uncommitted[w].kind = "update") =>
            LET old == RowOf(table, cur[w].document_id)
                new == RowOf(table', cur[w].document_id)
                stored == old.ingestion_attempt_number
            IN new.ingestion_attempt_number =
                 IF (old.ingestion_status # "success"
                     /\ cur[w].ingestion_status = "success")
                    \/ cur[w].ingestion_attempt_number > stored
                 THEN stored + 1
                 ELSE stored]_vars

\* C4 witness: the table was empty, one call upserted d1 as pending with number
\* 0, the other upserted d1 as success with number 0: the row holds number 1.
C4_Witness ==
    \E a, b \in Writers :
        /\ a # b
        /\ initialTable = {}
        /\ batch[a] = <<"d1">> /\ batch[b] = <<"d1">>
        /\ wPc[a] = "done" /\ wPc[b] = "done"
        /\ cur[a].ingestion_status = "pending"
        /\ cur[a].ingestion_attempt_number = 0
        /\ cur[b].ingestion_status = "success"
        /\ cur[b].ingestion_attempt_number = 0
        /\ table = {UpdatedRow(cur[a], cur[b], 1)}

\* an upsert applied as one step to the row of its document id, if any
SerialUpsert(rows, e) ==
    IF rows = {} THEN {e}
    ELSE {UpdatedRow(r, e, IF (r.ingestion_status # "success"
                               /\ e.ingestion_status = "success")
                              \/ e.ingestion_attempt_number
                                   > r.ingestion_attempt_number
                           THEN r.ingestion_attempt_number + 1
                           ELSE r.ingestion_attempt_number) : r \in rows}

\* the columns an upsert writes are those of document e
WrittenFrom(r, e) ==
    /\ r.collection_ids = e.collection_ids
    /\ r.user_id = e.user_id
    /\ r.document_type = e.document_type
    /\ r.metadata = e.metadata
    /\ r.title = e.title
    /\ r.version = e.version
    /\ r.size_in_bytes = e.size_in_bytes
    /\ r.ingestion_status = e.ingestion_status
    /\ r.kg_extraction_status = e.kg_extraction_status
    /\ r.updated_at = e.updated_at

\* two calls that upsert one document each, both for d1
TwoUpsertsOfD1 == \A w \in Writers : batch[w] = <<"d1">>

\* C5: when two concurrent upserts of d1 have both returned, d1 has one row;
\* it is the row that results from applying the two upserts one after the
\* other in one of the two orders (attempt number included), and all the
\* columns an upsert writes are those of one of the two documents.
C5_NoLostUpdate ==
    (TwoUpsertsOfD1 /\ \A w \in Writers : wPc[w] = "done") =>
        /\ \E a, b \in Writers :
            /\ a # b
            /\ RowsOf(table, "d1") =
                 SerialUpsert(SerialUpsert(RowsOf(initialTable, "d1"), cur[a]), cur[b])
        /\ \A r \in RowsOf(table, "d1") : \E w \in Writers : WrittenFrom(r, cur[w])

\* C5 witness: the table was empty, both calls tried to insert d1, one of them
\* met the unique violation, retried and updated the row the other created.
C5_Witness ==
    /\ TwoUpsertsOfD1
    /\ initialTable = {}
    /\ \A w \in Writers : wPc[w] = "done"
    /\ \E a, b \in Writers :
        /\ retries[a] = 0 /\ retries[b] = 1
        /\ \E r \in table : WrittenFrom(r, cur[b]) /\ r.created_at = cur[a].created_at

\* the documents of its batch whose upsert writer w has committed
Committed(w) == {batch[w][i] : i \in 1..(idx[w] - 1)}

\* C13: under every interleaving of concurrent upserts a document id has at
\* most one row: it has exactly one as soon as it had one at the start or an
\* upsert of it has committed (the insert created one row, every later
\* upsert, a racing insert included, updated it and added none), and it has
\* none before.
C13_OneRowPerDocument ==
    \A d \in DocIds :
        Cardinality(RowsOf(table, d)) =
            IF RowsOf(initialTable, d) # {} \/ \E w \in Writers : d \in Committed(w)
            THEN 1 ELSE 0

\* C13 witness: the table was empty and both calls set out to insert d1; one
\* has committed its insert, the INSERT of the other met the primary key and
\* that call is about to retry; d1 has one row.
C13_Witness ==
    /\ initialTable = {}
    /\ \E v, w \in Writers :
        /\ "d1" \in Committed(v)
        /\ idx[w] = 1 /\ retries[w] = 1 /\ wPc[w] = "backoff"
    /\ Cardinality(RowsOf(table, "d1")) = 1

\* C6: when the upsert of one document of a batch has failed for good, every
\* other document of the batch has a row in the table.
C6_OtherDocumentsWritten ==
    \A w \in Writers :
        wPc[w] = "failed" =>
            \A i \in 1..Len(batch[w]) :
                i # idx[w] => RowsOf(table, batch[w][i]) # {}

\* positions of a call at which the current document is being upserted
InRetryLoop(w) == wPc[w] \in {"select", "write", "commit", "backoff", "failed"}

\* C7 (states): a document's transaction is begun at most max_retries times;
\* it has been begun once more than it has failed while it runs and as often
\* as it has failed otherwise; a wait follows failures 1 to max_retries - 1
\* and the error is raised when the failures reach max_retries.
C7_Budget ==
    \A w \in Writers :
        InRetryLoop(w) =>
            /\ txnRuns[w] <= max_retries
            /\ wPc[w] \in {"write", "commit"} => txnRuns[w] = retries[w] + 1
            /\ wPc[w] \in {"select", "backoff", "failed"} => txnRuns[w] = retries[w]
            /\ wPc[w] = "backoff" => retries[w] \in 1..(max_retries - 1)
            /\ wPc[w] = "failed" <=> retries[w] = max_retries

\* C7 (steps): a commit ends the loop of the document, and the loop of the
\* next document starts with no failure counted.
C7_Steps ==
    \A w \in Writers :
        /\ (wPc[w] = "commit" /\ wPc'[w] # "commit") => wPc'[w] = "loop"
        /\ (wPc[w] = "loop" /\ wPc'[w] = "select") =>
                retries'[w] = 0 /\ txnRuns'[w] = 0

\* C7: the retry budget of every document is max_retries transactions, counted
\* per document, and every call of upsert ends, returning or raising.
C7_RetryBudget ==
    /\ []C7_Budget
    /\ [][C7_Steps]_vars
    /\ <>[](\A w \in Writers : wPc[w] \in {"done", "failed"})

\* C7 witness: the first document of a batch was written after failures, the
\* second one failed max_retries times and the call raised.
C7_Witness ==
    \E w \in Writers :
        /\ wPc[w] = "failed"
        /\ idx[w] = 2
        /\ txnRuns[w] = max_retries
        /\ RowsOf(table, batch[w][1]) # {}

\* the store raises a conflict of this kind in the transaction of w: in a
\* statement, or, for the uniqueness violation, in the INSERT of a key that
\* a committed row has
ConflictRaised(w, kind) ==
    \/ TxnRaises(w, kind)
    \/ /\ kind = "UniqueViolationError"
       /\ TxnWrite(w)
       /\ ~existing_doc[w].found
       /\ PrimaryKeyTaken(table, cur[w].document_id)

\* a conflict of one of these kinds raised before the retry budget is used up
\* is followed by a wait and by another transaction for the same document,
\* and the call does not raise
RecoveredLocally(kinds) ==
    \A w \in Writers :
        /\ \A kind \in kinds :
            (ConflictRaised(w, kind) /\ retries[w] + 1 < max_retries) =>
                /\ wPc'[w] = "backoff"
                /\ retries'[w] = retries[w] + 1
                /\ wait_time'[w] > 0
                /\ idx'[w] = idx[w]
                /\ table' = table
        /\ (wPc[w] = "backoff" /\ wPc'[w] # "backoff") =>
                /\ wPc'[w] = "select"
                /\ idx'[w] = idx[w]

C8_BackoffSchedule ==
    \A w \in Writers :
        wPc[w] = "backoff" => wait_time[w] = 100 * Pow2(retries[w] - 1)

-----------------------------------------------------------------------------
(***************************************************************************)
(* Properties of the delete, the workflow status calls and the overview    *)
(***************************************************************************)

\* the method has run and its reply has not been taken yet
Replied(op) == storePc = "replied" /\ call.op = op

\* C14 as claimed: a delete with a version leaves the table as it was unless
\* the version equals the stored one, whatever the version is (the empty
\* string included), and raises nothing; the row of the id is removed when no
\* version is given or the version equals the stored one; rows of other ids
\* stay.
C14_DeleteOtherVersionKeepsRow ==
    Replied("delete_from_documents_overview") =>
        /\ reply = RepliedNone
        /\ table = {r \in before :
                        ~(/\ r.document_id = call.ids[1]
                          /\ call.version = NoVersion \/ r.version = call.version)}

\* C14 as amended: a delete with a non-empty version label that differs from
\* the stored one leaves the table as it was and raises nothing; the table
\* changes only when no version or an empty one is given or the version
\* equals the stored one, and then it loses the row of that id and no other.
C14_DeleteNonEmptyOtherVersionKeepsRow ==
    Replied("delete_from_documents_overview") =>
        /\ reply = RepliedNone
        /\ table \subseteq before
        /\ \A r \in before : r.document_id # call.ids[1] => r \in table
        /\ \A r \in before :
            (r.document_id = call.ids[1] /\ r \in table) <=>
                (/\ r.document_id = call.ids[1]
                 /\ call.version \in VersionLabels
                 /\ call.version # r.version)

\* C14 witness: the table has a row of d1 and a row of d2, the delete named
\* one of them with a version label other than the stored one, and both rows
\* are still there.
C14_Witness ==
    /\ Replied("delete_from_documents_overview")
    /\ call.version \in VersionLabels
    /\ \E r \in before : r.document_id = call.ids[1] /\ r.version # call.version
    /\ Cardinality(before) = 2
    /\ table = before

\* C15: get_workflow_status of one id returns the status of that document; of
\* a list of ids it returns a list of the same length whose i-th element is
\* the status of the i-th id, in whatever order the store keeps the rows.
\* (Stated for the kg_extraction_status track and ids that have rows.)
C15_StatusesInInputOrder ==
    (/\ Replied("get_workflow_status")
     /\ call.status_type = "kg_extraction_status"
     /\ call.ids # <<>>
     /\ \A i \in 1..Len(call.ids) : RowsOf(before, call.ids[i]) # {}) =>
        IF call.scalar
        THEN /\ reply.kind = "value"
             /\ reply.text = RowOf(before, call.ids[1]).kg_extraction_status
        ELSE /\ reply.kind = "list"
             /\ Len(reply.list) = Len(call.ids)
             /\ \A i \in 1..Len(call.ids) :
                    reply.list[i] = RowOf(before, call.ids[i]).kg_extraction_status

\* C16: get_document_ids_by_status returns exactly the ids of the documents
\* whose status of the track is one of the given values, restricted to the
\* members of the collection when a collection is given and not restricted
\* when none is.  (Stated for the kg_extraction_status track.)
C16_IdsByStatus ==
    (/\ Replied("get_document_ids_by_status")
     /\ call.status_type = "kg_extraction_status") =>
        LET expected ==
              {r.document_id : r \in
                 {x \in before :
                    /\ x.kg_extraction_status \in Range(call.statuses)
                    /\ call.collection_id = NoCollection
                       \/ call.collection_id \in x.collection_ids}}
        IN /\ reply.kind = "list"
           /\ Range(reply.list) = expected
           /\ Len(reply.list) = Cardinality(expected)

\* the filters that are lists with elements are the conditions of a match
MatchesNonEmptyFilters(r, c) ==
    /\ c.filter_document_ids.ids # <<>> =>
            \E i \in 1..Len(c.filter_document_ids.ids) :
                r.document_id = c.filter_document_ids.ids[i]
    /\ c.filter_user_ids.ids # <<>> =>
            \E i \in 1..Len(c.filter_user_ids.ids) :
                r.user_id = c.filter_user_ids.ids[i]
    /\ c.filter_collection_ids.ids # <<>> =>
            \E i \in 1..Len(c.filter_collection_ids.ids) :
                c.filter_collection_ids.ids[i] \in r.collection_ids

\* every filter that is supplied, empty or not, is a condition of a match
MatchesSuppliedFilters(r, c) ==
    /\ c.filter_document_ids.given =>
            \E i \in 1..Len(c.filter_document_ids.ids) :
                r.document_id = c.filter_document_ids.ids[i]
    /\ c.filter_user_ids.given =>
            \E i \in 1..Len(c.filter_user_ids.ids) :
                r.user_id = c.filter_user_ids.ids[i]
    /\ c.filter_collection_ids.given =>
            \E i \in 1..Len(c.filter_collection_ids.ids) :
                c.filter_collection_ids.ids[i] \in r.collection_ids

\* C17: total_entries of get_documents_overview is the number of rows that
\* match the filters, for every offset and limit, also when the page is
\* empty because the offset is at or past that number; with offset 0, limit
\* -1 and no filter the results are all the rows.  (A row matches here when
\* it meets the filters that have elements.)
C17_TotalEntries ==
    Replied("get_documents_overview") =>
        /\ reply.kind = "overview"
        /\ reply.total =
              Cardinality({r \in before : MatchesNonEmptyFilters(r, call)})
        /\ (/\ call.offset = 0 /\ call.limit = -1
            /\ ~call.filter_document_ids.given
            /\ ~call.filter_user_ids.given
            /\ ~call.filter_collection_ids.given) =>
                /\ {d.id : d \in Range(reply.list)} = {r.document_id : r \in before}
                /\ Len(reply.list) = Cardinality(before)

\* the results are the rows at positions offset+1 .. offset+limit (to the end
\* when limit is -1) of the rows in `matching` put newest first
IsPageOf(matching) ==
    \E q \in Orderings(matching) :
        /\ \A i \in 1..(Len(q) - 1) : q[i].created_at >= q[i + 1].created_at
        /\ LET rest == IF Len(q) > call.offset THEN Len(q) - call.offset ELSE 0
               n == IF call.limit # -1 /\ call.limit < rest THEN call.limit ELSE rest
           IN /\ Len(reply.list) = n
              /\ \A i \in 1..n :
                    /\ reply.list[i].id = q[call.offset + i].document_id
                    /\ reply.list[i].created_at = q[call.offset + i].created_at
                    /\ reply.list[i].user_id = q[call.offset + i].user_id
                    /\ reply.list[i].collection_ids = q[call.offset + i].collection_ids

\* C18 as claimed: the results of get_documents_overview are the rows at
\* positions offset .. offset+limit-1 of the matching rows sorted by
\* created_at, newest first, where a row matches when it meets every filter
\* supplied: its id is among the document ids, its user among the user ids,
\* its collections share an element with the collection ids.
C18_PageOfSuppliedFilters ==
    Replied("get_documents_overview") =>
        /\ reply.kind = "overview"
        /\ IsPageOf({r \in before : MatchesSuppliedFilters(r, call)})

\* C18 as amended: the same, where a row matches when it meets every filter
\* supplied as a list with elements; a filter that is absent or an empty list
\* is no condition.
C18_PageOfNonEmptyFilters ==
    Replied("get_documents_overview") =>
        /\ reply.kind = "overview"
        /\ IsPageOf({r \in before : MatchesNonEmptyFilters(r, call)})

\* C18 witness: two rows created at different times match (a collection
\* filter is given, both rows are in the collection), offset 1 and limit 1:
\* the result is the older row alone.
C18_Witness ==
    /\ Replied("get_documents_overview")
    /\ Cardinality(before) = 2
    /\ call.filter_collection_ids.ids # <<>>
    /\ Cardinality({r \in before : MatchesNonEmptyFilters(r, call)}) = 2
    /\ call.offset = 1 /\ call.limit = 1
    /\ Len(reply.list) = 1
    /\ \A r \in before : r.created_at >= reply.list[1].created_at
    /\ \E r \in before : r.created_at > reply.list[1].created_at

\* the names _get_status_model knows
RecognisedStatusTypes == {"ingestion", "kg_extraction_status", "kg_enrichment_status"}

\* C19: get_workflow_status, set_workflow_status and
\* get_document_ids_by_status called with a status type that is not one of
\* the recognised ones fail with the error of status code 400 that names the
\* status type, no statement has been sent to the store, and the table is as
\* it was.
C19_UnknownStatusTypeRejected ==
    (/\ storePc = "replied"
     /\ call.op \in {"get_workflow_status", "set_workflow_status",
                     "get_document_ids_by_status"}
     /\ call.status_type \notin RecognisedStatusTypes) =>
        /\ reply.kind = "R2RException"
        /\ reply.code = 400
        /\ reply.text = call.status_type
        /\ queries = 0
        /\ table = before

\* C19 witness: set_workflow_status of a document that has a row, with the
\* name of the column ingestion_status as status type and a status other
\* than the stored one, was refused.
C19_Witness ==
    /\ Replied("set_workflow_status")
    /\ call.status_type = "ingestion_status"
    /\ \E r \in before :
        r.document_id \in Range(call.ids) /\ r.ingestion_status # call.statuses[1]
    /\ reply.code = 400

\* the column a status track is kept in
TrackColumn(status_type) ==
    IF status_type = "ingestion" THEN "ingestion_status" ELSE status_type

\* C28: after set_workflow_status every document has the rows it had; a row
\* whose id is not among the ids is as it was, and a row whose id is among
\* them differs at most in the column of the selected track; no row has
\* been created.
C28_SetStatusFrame ==
    Replied("set_workflow_status") =>
        /\ Cardinality(table) = Cardinality(before)
        /\ \A r \in table : \E b \in before :
            /\ b.document_id = r.document_id
            /\ \A f \in DOMAIN b \ {TrackColumn(call.status_type)} : r[f] = b[f]
            /\ b.document_id \notin Range(call.ids) => r = b
        /\ \A id \in Range(call.ids) :
            RowsOf(before, id) = {} => RowsOf(table, id) = {}

\* C28 witness: set_workflow_status of d1 on the track kg_extraction_status
\* has changed the status of the row of d1 while d2 has a row too.
C28_Witness ==
    /\ Replied("set_workflow_status")
    /\ call.ids = <<"d1">>
    /\ call.status_type = "kg_extraction_status"
    /\ reply = RepliedNone
    /\ RowsOf(before, "d2") # {}
    /\ \E b \in RowsOf(before, "d1") :
        /\ b.kg_extraction_status # call.statuses[1]
        /\ [b EXCEPT !.kg_extraction_status = call.statuses[1]] \in table

\* C28 witness of the absent row: an id among the ids has no row, another
\* has one and its status has changed
C28_AbsentRowWitness ==
    /\ Replied("set_workflow_status")
    /\ call.ids = <<"d1", "d2">>
    /\ call.status_type = "kg_extraction_status"
    /\ RowsOf(before, "d1") = {}
    /\ table # before

-----------------------------------------------------------------------------
(***************************************************************************)
(* Properties of filter_responses                                          *)
(***************************************************************************)

RECURSIVE PointsToKeep(_)
\* the points of a point list that have a score that is a number above 0;
\* the others are skipped
PointsToKeep(points) ==
    IF points = <<>> THEN <<>>
    ELSE LET item == Head(points) IN
         IF item.type = "object" /\ item.hasScore /\ item.scoreIsNumber
            /\ item.score > 0
         THEN <<item>> \o PointsToKeep(Tail(points))
         ELSE PointsToKeep(Tail(points))

RECURSIVE ResponsesToKeep(_)
\* the points to keep of the responses that parse to an object with a point
\* list; the other responses are skipped
ResponsesToKeep(responses) ==
    IF responses = <<>> THEN <<>>
    ELSE LET response == Head(responses) IN
         IF response.json /\ response.type = "object" /\ response.hasPoints
            /\ response.pointsIsList
         THEN PointsToKeep(response.points) \o ResponsesToKeep(Tail(responses))
         ELSE ResponsesToKeep(Tail(responses))

\* a response the merge is made for: text that does not parse, an object
\* without "points", or an object whose "points" is a list of objects that
\* have a description and a score that is a number, or no score
WellFormedResponse(response) ==
    \/ ~response.json
    \/ /\ response.type = "object"
       /\ ~response.hasPoints
    \/ /\ response.type = "object"
       /\ response.hasPoints
       /\ response.pointsIsList
       /\ \A i \in 1..Len(response.points) :
            LET item == response.points[i] IN
            /\ item.type = "object"
            /\ item.hasDescription
            /\ item.hasScore => item.scoreIsNumber

\* the place of items[j] in the descending order: after the items of a larger
\* score and after the earlier items of the same score
PlaceByScore(items, j) ==
    1 + Cardinality({k \in 1..Len(items) :
                        \/ items[k].score > items[j].score
                        \/ items[k].score = items[j].score /\ k < j})

\* the items, each at its place
DescendingStable(items) ==
    [i \in 1..Len(items) |->
        items[CHOOSE j \in 1..Len(items) : PlaceByScore(items, j) = i]]

\* C21: for well-formed responses filter_responses returns the descriptions
\* of exactly the items of score above 0 of all responses, largest score
\* first and items of the same score in their order of appearance, joined
\* by newlines; it returns the empty text when no item is retained.
C21_MergedText ==
    (kgPc = "returned"
     /\ \A i \in 1..Len(map_responses) : WellFormedResponse(map_responses[i]))
    => LET retained == ResponsesToKeep(map_responses) IN
       /\ kgResult.kind = "text"
       /\ kgResult.text = Join(DescendingStable(retained))
       /\ retained = <<>> => kgResult.text = ""
       /\ \A i \in 1..Len(retained) : retained[i].score > 0

\* C21 witness: the call with a response of one point of score 0.9 and
\* description A, a response that does not parse and a response whose only
\* point has no score has returned A.
C21_Witness ==
    /\ kgPc = "returned"
    /\ map_responses = <<WithPoints(<<Scored(9, "A")>>), NotJson,
                         WithPoints(<<NoScore("N")>>)>>
    /\ kgResult = KgText("A")

\* C21 witness of the order: two items of the same score from two responses
\* and an item of a larger score in between
C21_OrderWitness ==
    /\ kgPc = "returned"
    /\ map_responses = <<WithPoints(<<Scored(0, "Z"), Scored(5, "D")>>),
                         WithPoints(<<Scored(9, "A")>>),
                         WithPoints(<<Scored(5, "B"), Scored(9, "C")>>)>>
    /\ kgResult = KgText("A" \o Newline \o "C" \o Newline \o "D"
                         \o Newline \o "B")

\* C20: filter_responses returns a text for every list of responses: a
\* response that does not parse, or parses to a value of any type without a
\* point list, is skipped; a point without a score or with a score that is
\* not a number is skipped; the text is the merge of what remains.
C20_NeverAborts ==
    kgPc = "returned" =>
        /\ kgResult.kind = "text"
        /\ kgResult.text = Join(SortedByScore(ResponsesToKeep(map_responses)))

-----------------------------------------------------------------------------
(***************************************************************************)
(* Properties of local_search                                              *)
(***************************************************************************)

\* the results due for the hits of a query, in the order of the index
DueFor(query) ==
    [i \in 1..Len(query.hits) |->
        [content |-> [shape |-> IF query.search_type = "__Entity__"
                                THEN "KGEntityResult" ELSE "KGCommunityResult",
                      name |-> query.hits[i]],
         method |-> "LOCAL",
         result_type |-> IF query.search_type = "__Entity__"
                         THEN "ENTITY" ELSE "COMMUNITY",
         metadata |-> [associated_query |-> query.message]]]

RECURSIVE DueForAll(_)
\* the results due for a sequence of queries, query after query
DueForAll(queries_sent) ==
    IF queries_sent = <<>> THEN <<>>
    ELSE DueFor(Head(queries_sent)) \o DueForAll(Tail(queries_sent))

\* C22: the queries are sent message after message, the entity query of a
\* message before its community query, and each query only when a result
\* has been yielded for every hit of the queries before it; the results
\* yielded are those due for the hits of the queries, in the order of the
\* queries and, within a query, of the index, each tagged LOCAL, with the
\* result type of its index and the message of its query; when the
\* generator ends both queries of every message have been answered in full.
C22_EntityThenCommunity ==
    LET n == Len(vector_queries)
        due == DueForAll(vector_queries)
    IN
    /\ Len(search_results) <= Len(due)
    /\ yielded_results = SubSeq(due, 1, Len(due) - Len(search_results))
    /\ \A k \in 1..n :
        /\ vector_queries[k].message = messages[(k + 1) \div 2]
        /\ vector_queries[k].search_type =
              IF k % 2 = 1 THEN "__Entity__" ELSE "__Community__"
        /\ vector_queries[k].yielded_before =
              IF k = 1 THEN 0
              ELSE vector_queries[k - 1].yielded_before
                   + Len(vector_queries[k - 1].hits)
    /\ n = CASE searchPc = "embedded" -> 2 * message_index - 2
             [] searchPc = "entity" -> 2 * message_index - 1
             [] OTHER -> 2 * message_index
    /\ searchPc = "done" =>
        /\ n = 2 * Len(messages)
        /\ yielded_results = due

\* C22 witness: the search of two messages has ended; the entity index gave
\* two hits for the first message, the community index one, and both
\* indexes gave hits for the second message.
C22_Witness ==
    /\ searchPc = "done"
    /\ messages = <<"m1", "m2">>
    /\ vector_queries[1].hits = <<"h2", "h1">>
    /\ vector_queries[2].hits = <<"h1">>
    /\ vector_queries[3].hits = <<"h1", "h2">>
    /\ vector_queries[4].hits = <<"h2", "h1">>
    /\ Len(yielded_results) = 7
    /\ yielded_results[2].content.name = "h1"
    /\ yielded_results[3].result_type = "COMMUNITY"
    /\ yielded_results[4].metadata.associated_query = "m2"

=============================================================================
